---- MODULE Spec2Model ----
(***************************************************************************)
(* A model of FLogFS (src/README.md holds the current flogfs.c after the   *)
(* readme text).  The flash array, the driver's page register, the static  *)
(* flogfs_t structure and the caller-owned file handles are the state.     *)
(* Every public operation is one action, computed by operators that follow *)
(* the C functions statement by statement on a machine record m; m.ret is  *)
(* the value the last call returned.                                       *)
(*                                                                         *)
(* Numbers: 32-bit fields are kept as two's-complement representatives, so *)
(* the all-ones pattern 0xFFFFFFFF is -1; 16-bit fields are 0..65535.      *)
(* Sectors are byte arrays; records are serialised little-endian, packed.  *)
(***************************************************************************)
EXTENDS Integers, Sequences, FiniteSets, TLC

(***************************************************************************)
(* Configuration (a small flash: the macros of flogfs_conf.h).             *)
(***************************************************************************)
FS_SECTOR_SIZE == 16
FS_SECTORS_PER_PAGE == 4
FS_PAGES_PER_BLOCK == 2
FS_NUM_BLOCKS == 32
FS_PREALLOCATE_SIZE == 2
FLOG_MAX_FNAME_LEN == 32

FS_SECTORS_PER_BLOCK == FS_SECTORS_PER_PAGE * FS_PAGES_PER_BLOCK

FLOG_INIT_SECTOR == 0
FLOG_TAIL_SECTOR == FS_SECTORS_PER_PAGE - 2
FLOG_BLK_STAT_SECTOR == FS_SECTORS_PER_PAGE - 1
FLOG_INODE_FIRST_ENTRY_SECTOR == FS_SECTORS_PER_PAGE

FLOG_BLOCK_TYPE_UNALLOCATED == 255
FLOG_BLOCK_TYPE_INODE == 1
FLOG_BLOCK_TYPE_FILE == 2
FLOG_BLOCK_TYPE_ERROR == 0

FLOG_BLOCK_IDX_INVALID == 65535
FLOG_SECTOR_NBYTES_INVALID == 65535
FLOG_BLOCK_AGE_INVALID == -1
FLOG_FILE_ID_INVALID == -1
FLOG_TIMESTAMP_INVALID == -1

\* sizeof of the packed on-media records
SizeofFileInitHeader == 12
SizeofFileTailHeader == 12
SizeofInodeInit == 6
SizeofUniversalTail == 10
SizeofBlockStat == 14
SizeofInodeAllocHeader == 14
SizeofInodeInvalidation == 6

Blocks == 0 .. FS_NUM_BLOCKS - 1
Sectors == 0 .. FS_SECTORS_PER_BLOCK - 1
BitmapBytes == FS_NUM_BLOCKS \div 8

NULL == "null"
NoName == "<erased>"
Garbled == "?"

(***************************************************************************)
(* Fixed-width arithmetic and serialisation.  UNDEF is a byte, and UNDEFV  *)
(* a value, that was never initialised.                                    *)
(***************************************************************************)
UNDEF == 256
UNDEFV == -1431655766

\* the value of an expression that is computed once: Val({ e(x) : x \in {v} })
\* is e with x standing for the value of v
Val(S) == CHOOSE v \in S : TRUE

\* a loop: step is applied to the loop's variables s until s.done, at most n
\* times (the two halves of the n steps one after the other)
RECURSIVE Loop(_, _, _)
Loop(step(_), s, n) ==
    IF n = 0 \/ s.done THEN s
    ELSE IF n = 1 THEN step(s)
    ELSE Val({ Loop(step, s1, n - (n \div 2)) : s1 \in {Loop(step, s, n \div 2)} })

U16(x) == x % 65536
\* unsigned a > b on 32-bit representatives
UGt(a, b) == IF (a < 0) = (b < 0) THEN a > b ELSE a < 0
\* unsigned 32-bit a / n for 0 < n < 65536
UDiv(a, n) ==
    IF a >= 0 THEN a \div n
    ELSE IF n = 1 THEN a
    ELSE LET hi == 65536 + (a \div 65536)
             lo == a % 65536
             qh == hi \div n
             rh == hi % n
         IN  qh * 65536 + ((rh * 65536 + lo) \div n)
MIN(a, b) == IF a > b THEN b ELSE a
\* arithmetic that keeps track of an uninitialised operand
Plus(a, b) == IF a = UNDEFV \/ b = UNDEFV THEN UNDEFV ELSE a + b
Plus16(a, b) == IF a = UNDEFV \/ b = UNDEFV THEN UNDEFV ELSE (a + b) % 65536
\* buf with bytes stored at offset off
PutBytes(buf, off, bytes) ==
    [i \in 1 .. Len(buf) |->
        IF i > off /\ i - off <= Len(bytes) THEN bytes[i - off] ELSE buf[i]]

RECURSIVE BitAnd(_, _, _)
BitAnd(a, b, k) ==
    IF k = 0 THEN 0
    ELSE (a % 2) * (b % 2) + 2 * BitAnd(a \div 2, b \div 2, k - 1)

\* what a cell holding old holds after new is programmed onto it
And8(old, new) ==
    IF old = 255 THEN new
    ELSE IF new = 255 \/ new = old THEN old
    ELSE IF old = 0 \/ new = 0 THEN 0
    ELSE IF old = UNDEF \/ new = UNDEF THEN UNDEF
    ELSE BitAnd(old, new, 8)
And16(old, new) ==
    IF old = 65535 THEN new
    ELSE IF new = 65535 \/ new = old THEN old
    ELSE BitAnd(old, new, 16)

Bytes16(v) ==
    IF v = UNDEFV THEN <<UNDEF, UNDEF>> ELSE <<v % 256, (v \div 256) % 256>>
Bytes32(v) ==
    IF v = UNDEFV THEN <<UNDEF, UNDEF, UNDEF, UNDEF>>
    ELSE <<v % 256, (v \div 256) % 256, (v \div 65536) % 256,
           (v \div 16777216) % 256>>
\* the bytes of bs at offsets off .. off+n-1; past the end reads erased
Slice(bs, off, n) ==
    [i \in 1 .. n |-> IF off + i <= Len(bs) THEN bs[off + i] ELSE 255]
Get16(bs, off) ==
    LET s == Slice(bs, off, 2)
    IN  IF s[1] = UNDEF \/ s[2] = UNDEF THEN UNDEFV ELSE s[1] + 256 * s[2]
Get32(bs, off) ==
    LET s == Slice(bs, off, 4)
    IN  IF \E i \in 1 .. 4 : s[i] = UNDEF THEN UNDEFV
        ELSE s[1] + 256 * s[2] + 65536 * s[3]
             + 16777216 * (IF s[4] >= 128 THEN s[4] - 256 ELSE s[4])

(***************************************************************************)
(* Flash contents.  A sector has FS_SECTOR_SIZE main bytes b, the bytes of *)
(* a stored file name and of the stat key kept apart (name, key), and a    *)
(* spare: the type byte and the 16-bit word that is nbytes for file        *)
(* sectors and inode_index for inode init sectors.                         *)
(***************************************************************************)
ErasedSector ==
    [b |-> [i \in 1 .. FS_SECTOR_SIZE |-> 255], key |-> FALSE, name |-> NoName,
     type |-> 255, w |-> 65535]
ErasedBlock == [s \in Sectors |-> ErasedSector]
ErasedFlash == [b \in Blocks |-> ErasedBlock]

(***************************************************************************)
(* The flash driver (the host's side of the interface): one page register. *)
(* Programming clears bits only; an erase sets a whole block.  Power is    *)
(* lost when fuel runs out before a program or erase step.                 *)
(***************************************************************************)
PageOf(sector) == sector \div FS_SECTORS_PER_PAGE
InPage(sector) == sector % FS_SECTORS_PER_PAGE

Halt(m, why) == [m EXCEPT !.halt = IF @ = "run" THEN why ELSE @]

flash_open_page_result(block, page) ==
    block \in Blocks /\ page \in 0 .. FS_PAGES_PER_BLOCK - 1

flash_open_page(m0, block, page) ==
    Val({ [m EXCEPT !.drv =
             [block |-> block, page |-> page,
              secs |-> IF flash_open_page_result(block, page)
                       THEN [i \in 0 .. FS_SECTORS_PER_PAGE - 1 |->
                               m.flash[block][page * FS_SECTORS_PER_PAGE + i]]
                       ELSE [i \in 0 .. FS_SECTORS_PER_PAGE - 1 |-> ErasedSector]]]
        : m \in {m0} })

flash_block_is_bad(m) == m.drv.block \in m.bad

\* the register's copy of a sector of the open page
flash_sector(m, sector) == m.drv.secs[InPage(sector)]

flash_read_sector(m, sector, offset, n) == Slice(flash_sector(m, sector).b, offset, n)

flash_write_sector(m, sector, offset, bytes) ==
    [m EXCEPT !.drv.secs[InPage(sector)].b =
        [i \in 1 .. FS_SECTOR_SIZE |->
            IF i > offset /\ i - offset <= Len(bytes)
            THEN And8(@[i], bytes[i - offset]) ELSE @[i]]]

NameAnd(old, new) ==
    IF old = NoName THEN new
    ELSE IF new = NoName \/ new = old THEN old
    ELSE Garbled

flash_write_name(m, sector, name) ==
    [m EXCEPT !.drv.secs[InPage(sector)].name = NameAnd(@, name)]

flash_write_key(m, sector) ==
    [m EXCEPT !.drv.secs[InPage(sector)].key = TRUE]

flash_write_spare(m, sector, type, w) ==
    [m EXCEPT !.drv.secs[InPage(sector)].type = And8(@, type),
              !.drv.secs[InPage(sector)].w = And16(@, w)]

\* page program: the register lands on the media in one step
flash_commit(m0) ==
    Val({ IF m.halt # "run" THEN m
          ELSE IF m.fuel = 0 THEN Halt(m, "off")
          ELSE IF ~flash_open_page_result(m.drv.block, m.drv.page)
          THEN [m EXCEPT !.fuel = @ - 1]
          ELSE [m EXCEPT !.fuel = @ - 1,
                         !.flash[m.drv.block] =
                            [s \in Sectors |->
                               IF PageOf(s) = m.drv.page THEN m.drv.secs[InPage(s)]
                               ELSE @[s]]]
        : m \in {m0} })

flash_erase_block(m0, block) ==
    Val({ IF m.halt # "run" THEN m
          ELSE IF m.fuel = 0 THEN Halt(m, "off")
          ELSE IF block \notin Blocks THEN [m EXCEPT !.fuel = @ - 1]
          \* the device refuses: the block stays as it is
          ELSE IF block \in m.erasefail THEN [m EXCEPT !.fuel = @ - 1]
          ELSE [m EXCEPT !.fuel = @ - 1, !.flash[block] = ErasedBlock]
        : m \in {m0} })

(***************************************************************************)
(* The static flogfs_t and the locks.                                      *)
(***************************************************************************)
\* the zero-filled static structure, before flogfs_init
ZeroFs ==
    [read_head |-> NULL, write_head |-> NULL, max_file_id |-> 0,
     state |-> "RESET", t |-> 0, inode0 |-> 0,
     cache_status |-> [current_open_block |-> 0, current_open_page |-> 0,
                       page_open |-> 0, page_open_result |-> FALSE],
     free_block_bitmap |-> [b \in Blocks |-> 0],
     mean_free_age |-> 0, free_block_sum |-> 0, num_free_blocks |-> 0,
     lock |-> 0, allocate_lock |-> 0, delete_lock |-> 0, flash_lock |-> 0,
     t_allocation_ceiling |-> 0,
     dirty_block |-> [block |-> 0, file |-> NULL],
     allocate_head |-> 0,
     prealloc |-> [blocks |-> [i \in 0 .. FS_PREALLOCATE_SIZE - 1 |->
                                 [block |-> 0, age |-> 0]],
                   n |-> 0, age_sum |-> 0]]

\* a mutex that is not recursive: locking a lock the caller holds never returns
fs_lock(m0, l) ==
    Val({ IF m.fs[l] = 1 THEN Halt(m, "deadlock") ELSE [m EXCEPT !.fs[l] = 1]
        : m \in {m0} })
fs_unlock(m, l) == [m EXCEPT !.fs[l] = 0]

flog_lock_fs(m) == fs_lock(m, "lock")
flog_unlock_fs(m) == fs_unlock(m, "lock")
flog_lock_allocate(m) == fs_lock(m, "allocate_lock")
flog_unlock_allocate(m) == fs_unlock(m, "allocate_lock")
flog_lock_delete(m) == fs_lock(m, "delete_lock")
flog_unlock_delete(m) == fs_unlock(m, "delete_lock")
flash_lock(m) == fs_lock(m, "flash_lock")
flash_unlock(m) == fs_unlock(m, "flash_lock")

Ret(m, v) == [m EXCEPT !.ret = v]

flogfs_init(m) ==
    [m EXCEPT !.fs.lock = 0, !.fs.allocate_lock = 0, !.fs.delete_lock = 0,
              !.fs.state = "RESET",
              !.fs.cache_status.page_open = 0,
              !.fs.dirty_block.block = FLOG_BLOCK_IDX_INVALID]

\* an integer division by zero either yields zero or traps, by the target
DivTrap(m0, n) ==
    Val({ IF n = 0 /\ m.ub = "trap" THEN Halt(m, "fault") ELSE m : m \in {m0} })
DivVal(a, n) == IF n = 0 THEN 0 ELSE UDiv(a, n)

(***************************************************************************)
(* Page-cache shim.                                                        *)
(***************************************************************************)
flog_open_page(m0, block, page) ==
    Val({ IF /\ m.fs.cache_status.page_open = 1
             /\ m.fs.cache_status.current_open_block = block
             /\ m.fs.cache_status.current_open_page = page
          THEN m
          ELSE [flash_open_page(m, block, page) EXCEPT
                  !.fs.cache_status = [current_open_block |-> block,
                                       current_open_page |-> page,
                                       page_open |-> 1,
                                       page_open_result |->
                                          flash_open_page_result(block, page)]]
        : m \in {m0} })

flog_open_sector(m, block, sector) == flog_open_page(m, block, PageOf(sector))

flog_close_sector(m) == [m EXCEPT !.fs.cache_status.page_open = 0]

(***************************************************************************)
(* Block-level readers and writers.  Each reader leaves what it read in    *)
(* m.ret.                                                                  *)
(***************************************************************************)
\* flog_block_stat_sector_t
StatOf(bs) == [age |-> Get32(bs, 0), next_block |-> Get16(bs, 4),
               next_age |-> Get32(bs, 6), timestamp |-> Get32(bs, 10)]
StatBytes(s) == Bytes32(s.age) \o Bytes16(s.next_block) \o Bytes32(s.next_age)
                \o Bytes32(s.timestamp)
\* flog_file_tail_sector_header_t, whose first three fields are
\* flog_universal_tail_sector_t
TailOf(bs) == [next_block |-> Get16(bs, 0), next_age |-> Get32(bs, 2),
               timestamp |-> Get32(bs, 6), bytes_in_block |-> Get16(bs, 10)]
\* flog_file_init_sector_header_t
FileInitOf(bs) == [age |-> Get32(bs, 0), file_id |-> Get32(bs, 4),
                   timestamp |-> Get32(bs, 8)]
\* flog_inode_file_allocation_header_t
InodeAllocOf(bs) == [file_id |-> Get32(bs, 0), first_block |-> Get16(bs, 4),
                     first_block_age |-> Get32(bs, 6), timestamp |-> Get32(bs, 10)]
\* flog_inode_file_invalidation_t
InodeInvalOf(bs) == [timestamp |-> Get32(bs, 0), last_block |-> Get16(bs, 4)]

flog_get_block_stat(m, block) ==
    Val({ Ret(m1, StatOf(flash_read_sector(m1, FLOG_BLK_STAT_SECTOR, 0, SizeofBlockStat)))
        : m1 \in {flog_open_sector(m, block, FLOG_BLK_STAT_SECTOR)} })

flog_write_block_stat(m, block, stat) ==
    flash_commit(flash_write_sector(flog_open_sector(m, block, FLOG_BLK_STAT_SECTOR),
                                    FLOG_BLK_STAT_SECTOR, 0, StatBytes(stat)))

flog_get_block_type(m, block) ==
    Val({ IF ~m1.fs.cache_status.page_open_result THEN Ret(m1, FLOG_BLOCK_TYPE_ERROR)
          ELSE Ret(m1, flash_sector(m1, FLOG_INIT_SECTOR).type)
        : m1 \in {flog_open_sector(m, block, FLOG_INIT_SECTOR)} })

flog_block_get_file_id(m, block) ==
    Val({ Ret(m1, Get32(flash_read_sector(m1, FLOG_INIT_SECTOR, 4, 4), 0))
        : m1 \in {flog_open_sector(m, block, FLOG_INIT_SECTOR)} })

flog_block_get_age(m, block) ==
    Val({ Ret(m1, Get32(flash_read_sector(m1, FLOG_BLK_STAT_SECTOR, 0, 4), 0))
        : m1 \in {flog_open_sector(m, block, FLOG_BLK_STAT_SECTOR)} })

flog_block_get_init_timestamp(m, block) ==
    Val({ Ret(m1, Get32(flash_read_sector(m1, FLOG_INIT_SECTOR, 0, 4), 0))
        : m1 \in {flog_open_sector(m, block, FLOG_INIT_SECTOR)} })

flog_universal_get_next_block(m, block) ==
    IF block = FLOG_BLOCK_IDX_INVALID THEN Ret(m, block)
    ELSE Val({ Ret(m1, Get16(flash_read_sector(m1, FLOG_TAIL_SECTOR, 0, 2), 0))
             : m1 \in {flog_open_sector(m, block, FLOG_TAIL_SECTOR)} })

flog_get_file_tail_sector(m, block) ==
    Val({ Ret(m1, TailOf(flash_read_sector(m1, FLOG_TAIL_SECTOR, 0, SizeofFileTailHeader)))
        : m1 \in {flog_open_sector(m, block, FLOG_TAIL_SECTOR)} })

flog_get_file_init_sector(m, block) ==
    Val({ Ret(m1, FileInitOf(flash_read_sector(m1, FLOG_INIT_SECTOR, 0,
                                               SizeofFileInitHeader)))
        : m1 \in {flog_open_sector(m, block, FLOG_INIT_SECTOR)} })

flog_get_universal_tail_sector(m, block) ==
    Val({ Ret(m1, TailOf(flash_read_sector(m1, FLOG_TAIL_SECTOR, 0, SizeofUniversalTail)))
        : m1 \in {flog_open_sector(m, block, FLOG_TAIL_SECTOR)} })

\* every sector in turn, the stat sector included (not the code)
increment_sector_plain(tail, per_page, per_block, sector) ==
    IF sector = per_block - 1 THEN tail ELSE sector + 1

\* flog_increment_sector for the values tail, per_page and per_block of
\* FLOG_TAIL_SECTOR, FS_SECTORS_PER_PAGE and FS_SECTORS_PER_BLOCK
increment_sector(tail, per_page, per_block, sector) ==
    IF sector = tail - 1 THEN per_page
    ELSE IF sector = per_block - 1 THEN tail
    ELSE sector + 1

flog_increment_sector(sector) ==
    increment_sector(FLOG_TAIL_SECTOR, FS_SECTORS_PER_PAGE, FS_SECTORS_PER_BLOCK,
                     sector)

(***************************************************************************)
(* Inode iterator.                                                         *)
(***************************************************************************)
flog_inode_iterator_init(m, inode0) ==
    Val({ Val({ Ret(m2, [block |-> inode0,
                         next_block |->
                            Get16(flash_read_sector(m1, FLOG_TAIL_SECTOR, 0, 2), 0),
                         inode_block_idx |-> flash_sector(m2, FLOG_INIT_SECTOR).w,
                         inode_idx |-> 0,
                         sector |-> FLOG_INODE_FIRST_ENTRY_SECTOR])
              : m2 \in {flog_open_sector(m1, inode0, FLOG_INIT_SECTOR)} })
        : m1 \in {flog_open_sector(m, inode0, FLOG_TAIL_SECTOR)} })

flog_inode_iterator_next(m, iter) ==
    IF iter.sector + 2 >= FS_SECTORS_PER_BLOCK
    THEN IF iter.next_block # FLOG_BLOCK_IDX_INVALID
         THEN Val({ Ret(m1, [iter EXCEPT !.block = iter.next_block,
                                         !.next_block = m1.ret,
                                         !.sector = FLOG_INODE_FIRST_ENTRY_SECTOR,
                                         !.inode_idx = @ + 1])
                  : m1 \in {flog_universal_get_next_block(m, iter.next_block)} })
         \* the next block does not exist: sector and inode_idx are put back
         ELSE Ret(m, iter)
    ELSE Ret(m, [iter EXCEPT !.sector = @ + 2, !.inode_idx = @ + 1])

(***************************************************************************)
(* Allocator.                                                              *)
(***************************************************************************)
InvalidAlloc == [block |-> FLOG_BLOCK_IDX_INVALID, age |-> UNDEFV]

\* free_block_bitmap[allocate_head] & (1 << (allocate_head % 8)): the byte
\* index is the head itself; past the array the bit read is m.oob
flog_allocate_block_iterate(m) ==
    Val({ IF bit = 1
          THEN Val({ Ret([m1 EXCEPT !.fs.allocate_head = (head + 1) % FS_NUM_BLOCKS],
                         [block |-> head, age |-> m1.ret.age])
                   : m1 \in {flog_get_block_stat(m, head)} })
          ELSE Ret([m EXCEPT !.fs.allocate_head = (head + 1) % FS_NUM_BLOCKS],
                   InvalidAlloc)
        : head \in {m.fs.allocate_head},
          bit \in {IF m.fs.allocate_head < BitmapBytes
                   THEN m.fs.free_block_bitmap[8 * m.fs.allocate_head
                                               + (m.fs.allocate_head % 8)]
                   ELSE m.oob} })

\* the inner loop of flog_prealloc_push: shift the older blocks
RECURSIVE prealloc_shift(_, _, _)
prealloc_shift(blocks, j, i) ==
    IF j > i THEN prealloc_shift([blocks EXCEPT ![j] = blocks[j - 1]], j - 1, i)
    ELSE blocks

\* the outer loop of flog_prealloc_push: for(i = n - 1; i; i--)
RECURSIVE prealloc_push_loop(_, _, _, _)
prealloc_push_loop(m, block, age, i) ==
    IF i = 0 THEN m
    ELSE IF ~UGt(age, m.fs.prealloc.blocks[i].age)
    THEN Val({ [m EXCEPT !.fs.prealloc =
                  [blocks |-> [prealloc_shift(p.blocks,
                                              MIN(p.n, FS_PREALLOCATE_SIZE - 1), i)
                               EXCEPT ![i] = [block |-> block, age |-> age]],
                   n |-> IF p.n < FS_PREALLOCATE_SIZE THEN p.n + 1 ELSE p.n,
                   age_sum |-> (IF p.n = FS_PREALLOCATE_SIZE
                                THEN p.age_sum - p.blocks[FS_PREALLOCATE_SIZE - 1].age
                                ELSE p.age_sum) + age]]
             : p \in {m.fs.prealloc} })
    ELSE prealloc_push_loop(m, block, age, i - 1)

flog_prealloc_push(m, block, age) ==
    Val({ IF p.n = 0
          THEN [m EXCEPT !.fs.prealloc.blocks[0] = [block |-> block, age |-> age],
                         !.fs.prealloc.n = 1,
                         !.fs.prealloc.age_sum = @ + age]
          ELSE IF p.n = FS_PREALLOCATE_SIZE /\ UGt(age, p.blocks[p.n - 1].age)
          THEN m
          ELSE prealloc_push_loop(m, block, age, p.n - 1)
        : p \in {m.fs.prealloc} })

flog_age_is_sufficient(m, threshold, age) == m.fs.mean_free_age - age >= threshold

flog_prealloc_pop(m, threshold) ==
    Val({ IF p.n = 0 \/ ~flog_age_is_sufficient(m, threshold, p.blocks[0].age)
          THEN Ret(m, InvalidAlloc)
          ELSE Ret([m EXCEPT !.fs.prealloc.n = p.n - 1,
                             !.fs.prealloc.blocks =
                                [i \in 0 .. FS_PREALLOCATE_SIZE - 1 |->
                                   IF i < p.n - 1 THEN p.blocks[i + 1] ELSE p.blocks[i]]],
                   p.blocks[0])
        : p \in {m.fs.prealloc} })

\* num_free_blocks -= 1; free_block_sum -= age; mean_free_age = sum / num
TakeFree(m0, age) ==
    Val({ DivTrap([m EXCEPT !.fs.num_free_blocks = num,
                            !.fs.free_block_sum = sum,
                            !.fs.mean_free_age = DivVal(sum, num)], num)
        : m \in {m0},
          num \in {U16(m0.fs.num_free_blocks - 1)},
          sum \in {m0.fs.free_block_sum - age} })

\* free_block_bitmap[age / 8] &= ~(1 << (age % 8)); a store past the array
\* is not followed further
ClearBitOfAge(m, age) ==
    IF age \in Blocks THEN [m EXCEPT !.fs.free_block_bitmap[age] = 0]
    ELSE Halt(m, "fault")

\* one pass of the loop of flog_allocate_block over [m, threshold, block]
allocate_step(s) ==
    Val({ IF m1.ret.block # FLOG_BLOCK_IDX_INVALID
          THEN [s EXCEPT !.m = TakeFree(m1, m1.ret.age), !.block = m1.ret,
                         !.done = TRUE]
          ELSE
          Val({ IF m2.ret.block # FLOG_BLOCK_IDX_INVALID
                   /\ flog_age_is_sufficient(m2, s.threshold, m2.ret.age)
                THEN [s EXCEPT !.m = TakeFree(ClearBitOfAge(m2, m2.ret.age),
                                              m2.ret.age),
                               !.block = m2.ret, !.done = TRUE]
                ELSE [s EXCEPT !.m = IF m2.ret.block # FLOG_BLOCK_IDX_INVALID
                                     THEN flog_prealloc_push(m2, m2.ret.block,
                                                             m2.ret.age)
                                     ELSE m2,
                               !.block = m2.ret,
                               !.threshold = @ - 1]
              : m2 \in {flog_allocate_block_iterate(m1)} })
        : m1 \in {flog_prealloc_pop(s.m, s.threshold)} })

flog_allocate_block(m, threshold) ==
    IF m.fs.num_free_blocks = 0 THEN Ret(m, InvalidAlloc)
    ELSE Val({ Ret(s.m, s.block)
             : s \in {Loop(allocate_step,
                           [m |-> m, threshold |-> threshold, block |-> InvalidAlloc,
                            done |-> FALSE],
                           FS_NUM_BLOCKS)} })

(***************************************************************************)
(* File handles (caller-owned memory, uninitialised before the first open) *)
(***************************************************************************)
UninitWrite ==
    [block |-> UNDEFV, sector |-> UNDEFV, offset |-> UNDEFV,
     sector_remaining_bytes |-> UNDEFV, bytes_in_block |-> UNDEFV,
     block_age |-> UNDEFV, id |-> UNDEFV, base_threshold |-> UNDEFV,
     write_head |-> UNDEFV,
     sector_buffer |-> [i \in 1 .. FS_SECTOR_SIZE |-> UNDEF], next |-> NULL]
UninitRead ==
    [block |-> UNDEFV, sector |-> UNDEFV, offset |-> UNDEFV,
     sector_remaining_bytes |-> UNDEFV, id |-> UNDEFV, read_head |-> UNDEFV,
     next |-> NULL]

\* the last handle of a list that starts at h
RECURSIVE ListLast(_, _)
ListLast(files, h) == IF files[h].next = NULL THEN h ELSE ListLast(files, files[h].next)

\* the handle whose next is h in the list that starts at it, or NULL
RECURSIVE ListPred(_, _, _)
ListPred(files, it, h) ==
    IF it = NULL \/ files[it].next = NULL THEN NULL
    ELSE IF files[it].next = h THEN it
    ELSE ListPred(files, files[it].next, h)

(***************************************************************************)
(* flog_find_file                                                          *)
(***************************************************************************)
\* strncmp(filename, stored, FLOG_MAX_FNAME_LEN) == 0 for a stored name that
\* is at most FLOG_MAX_FNAME_LEN - 1 characters and a terminator
NameMatches(filename, stored) ==
    /\ stored \notin {NoName, Garbled}
    /\ Len(filename) < FLOG_MAX_FNAME_LEN
    /\ filename = stored

NotFound(iter) ==
    [first_block |-> FLOG_BLOCK_IDX_INVALID, file_id |-> UNDEFV, iter |-> iter]

\* the entry is not the one looked for: on to the next; an iterator that
\* cannot advance reads the same entry for ever
find_file_next(s, m) ==
    Val({ IF mn.ret = s.iter
          THEN [s EXCEPT !.m = Halt(mn, "hang"), !.done = TRUE]
          ELSE [s EXCEPT !.m = mn, !.iter = mn.ret]
        : mn \in {flog_inode_iterator_next(m, s.iter)} })

\* one pass of the loop of flog_find_file over [m, filename, iter, result]
find_file_step(s) ==
    Val({
    Val({ IF alloc.file_id = FLOG_FILE_ID_INVALID
          THEN [s EXCEPT !.m = m1, !.done = TRUE]
          ELSE IF ~NameMatches(s.filename, flash_sector(m1, s.iter.sector).name)
          THEN find_file_next(s, m1)
          ELSE
          Val({ IF InodeInvalOf(flash_read_sector(m2, s.iter.sector + 1, 0, 4)).timestamp
                      # FLOG_TIMESTAMP_INVALID
                THEN find_file_next(s, m2)
                ELSE [s EXCEPT !.m = m2,
                               !.result = [first_block |-> alloc.first_block,
                                           file_id |-> alloc.file_id,
                                           iter |-> s.iter],
                               !.done = TRUE]
              : m2 \in {flog_open_sector(m1, s.iter.block, s.iter.sector + 1)} })
        : alloc \in {InodeAllocOf(flash_read_sector(m1, s.iter.sector, 0,
                                                    SizeofInodeAllocHeader))} })
        : m1 \in {flog_open_sector(s.m, s.iter.block, s.iter.sector)} })

\* the longest walk over an inode chain that visits no entry twice
MaxInodeEntries ==
    FS_NUM_BLOCKS * ((FS_SECTORS_PER_BLOCK - FLOG_INODE_FIRST_ENTRY_SECTOR) \div 2)

\* m.ret is [first_block, file_id, iter]
flog_find_file(m, filename) ==
    Val({
    Val({ IF s.done /\ s.result.first_block # FLOG_BLOCK_IDX_INVALID
          THEN Ret(s.m, s.result)
          ELSE IF s.done THEN Ret(s.m, NotFound(s.iter))
          \* a chain that is a cycle is walked for ever
          ELSE Ret(Halt(s.m, "hang"), NotFound(s.iter))
        : s \in {Loop(find_file_step,
                      [m |-> m1, filename |-> filename, iter |-> m1.ret,
                       result |-> NotFound(m1.ret), done |-> FALSE],
                      MaxInodeEntries)} })
        : m1 \in {flog_inode_iterator_init(m, m.fs.inode0)} })

(***************************************************************************)
(* Write path.                                                             *)
(***************************************************************************)
RECURSIVE flog_commit_file_sector(_, _, _)

flog_flush_write(m, file) == flog_commit_file_sector(m, file, <<>>)

flog_flush_dirty_block(m) ==
    IF m.fs.dirty_block.block # FLOG_BLOCK_IDX_INVALID
    THEN [flog_flush_write(m, m.fs.dirty_block.file) EXCEPT
             !.fs.dirty_block.block = FLOG_BLOCK_IDX_INVALID]
    ELSE m

\* the branch of flog_commit_file_sector for file->sector == FLOG_TAIL_SECTOR
commit_tail_sector(m, file, data) ==
    Val({ IF m1.halt # "run" THEN Ret(m1, FALSE) ELSE
    Val({ IF m2.halt # "run" THEN Ret(m2, FALSE) ELSE
    Val({ IF m3.ret.block = FLOG_BLOCK_IDX_INVALID
          THEN Ret(flog_unlock_allocate(m3), FALSE) ELSE
    Val({
    Val({
    Val({ \* file_sector_spare.type_id is not assigned on this branch
          Ret([flash_commit(
                 flash_write_spare(
                    IF Len(data) > 0
                    THEN flash_write_sector(m6, FLOG_TAIL_SECTOR, f.offset, data)
                    ELSE m6,
                    FLOG_TAIL_SECTOR, UNDEF, FS_SECTOR_SIZE - SizeofFileTailHeader))
               EXCEPT !.wf[file] =
                [f EXCEPT !.block = next_block.block,
                          !.block_age = next_block.age,
                          !.sector = FLOG_INIT_SECTOR,
                          !.sector_remaining_bytes = FS_SECTOR_SIZE - SizeofFileInitHeader,
                          !.bytes_in_block = 0,
                          !.offset = SizeofFileInitHeader,
                          !.write_head = Plus(@, Len(data)),
                          !.sector_buffer = buf]],
              TRUE)
        : m6 \in {flash_write_sector(
                     flog_open_sector([m4 EXCEPT !.fs.t = t1], f.block, FLOG_TAIL_SECTOR),
                     FLOG_TAIL_SECTOR, 0, Slice(buf, 0, f.offset))} })
        : buf \in {PutBytes(f.sector_buffer, 0,
                      Bytes16(next_block.block) \o Bytes32(Plus(next_block.age, 1))
                      \o Bytes32(t1)
                      \o Bytes16(Plus16(f.bytes_in_block,
                                        FS_SECTOR_SIZE - SizeofFileTailHeader)))} })
        : f \in {m3.wf[file]},
          next_block \in {m3.ret},
          t1 \in {m3.fs.t + 1},
          m4 \in {flog_unlock_allocate(
                    [m3 EXCEPT !.fs.dirty_block = [block |-> m3.ret.block, file |-> file],
                               !.fs.num_free_blocks = U16(@ - 1)])} })
        : m3 \in {flog_allocate_block(m2, m2.wf[file].base_threshold)} })
        : m2 \in {flog_flush_dirty_block(m1)} })
        : m1 \in {flog_lock_allocate(m)} })

\* the branch for every other sector
\* what goes into the page register: the sector is opened, the buffered
\* bytes and the data are written to it, and the spare
commit_data_stage(m1, file, data) ==
    Val({
    Val({
    Val({ flash_write_spare(
             IF n > 0 THEN flash_write_sector(m4, f.sector, f.offset, data)
             ELSE m4,
             f.sector, FLOG_BLOCK_TYPE_FILE,
             IF f.sector = FLOG_INIT_SECTOR
             THEN U16(f.offset + n - SizeofFileInitHeader)
             ELSE f.offset + n)
        : m4 \in {IF f.offset # 0
                  THEN flash_write_sector(flog_open_sector(m2, f.block, f.sector),
                                          f.sector, 0, Slice(buf, 0, f.offset))
                  ELSE flog_open_sector(m2, f.block, f.sector)} })
        : buf \in {IF f.sector = FLOG_INIT_SECTOR
                   THEN PutBytes(f.sector_buffer, 0, Bytes32(f.block_age) \o Bytes32(f.id))
                   ELSE f.sector_buffer} })
        : m2 \in {flog_unlock_allocate(
                    IF m1.fs.dirty_block.file = file
                    THEN [m1 EXCEPT !.fs.dirty_block.block = FLOG_BLOCK_IDX_INVALID]
                    ELSE m1)},
          f \in {m1.wf[file]},
          n \in {Len(data)} })

\* flash_commit, and the file structure made ready for the next sector
commit_data_finish(m0, file, data) ==
    Val({
    Val({
    Val({
    Val({ Ret([flash_commit(m)
               EXCEPT !.wf[file] =
                [f EXCEPT !.sector = sector,
                          !.offset = offset,
                          !.bytes_in_block = Plus16(@, n),
                          !.sector_remaining_bytes = FS_SECTOR_SIZE - offset,
                          !.write_head = Plus(@, n),
                          !.sector_buffer = buf]],
              TRUE)
        : offset \in {IF sector = FLOG_TAIL_SECTOR THEN SizeofFileTailHeader ELSE 0} })
        : buf \in {IF f.sector = FLOG_INIT_SECTOR
                   THEN PutBytes(f.sector_buffer, 0, Bytes32(f.block_age) \o Bytes32(f.id))
                   ELSE f.sector_buffer},
          sector \in {flog_increment_sector(f.sector)} })
        : f \in {m.wf[file]},
          n \in {Len(data)} })
        : m \in {m0} })

commit_data_sector(m, file, data) ==
    Val({ IF m1.halt # "run" THEN Ret(m1, FALSE)
          ELSE Val({ commit_data_finish(m2, file, data)
                   : m2 \in {commit_data_stage(m1, file, data)} })
        : m1 \in {flog_lock_allocate(m)} })

flog_commit_file_sector(m, file, data) ==
    IF m.halt # "run" THEN Ret(m, FALSE)
    ELSE IF m.wf[file].sector = FLOG_TAIL_SECTOR THEN commit_tail_sector(m, file, data)
    ELSE commit_data_sector(m, file, data)

\* one pass of the loop of flogfs_write over [m, file, src, count]
write_step(s) ==
    Val({ IF nbytes = 0 THEN [s EXCEPT !.done = TRUE]
          ELSE IF nbytes >= f.sector_remaining_bytes
          THEN Val({ IF ~m1.ret THEN [s EXCEPT !.m = m1, !.done = TRUE]
                     ELSE [s EXCEPT !.m = m1,
                                    !.src = SubSeq(@, f.sector_remaining_bytes + 1,
                                                   nbytes),
                                    !.count = @ + f.sector_remaining_bytes]
                   : m1 \in {flog_commit_file_sector(
                                s.m, s.file,
                                SubSeq(s.src, 1, f.sector_remaining_bytes))} })
          ELSE [s EXCEPT !.m = [s.m EXCEPT !.wf[s.file] =
                                  [f EXCEPT !.sector_buffer = PutBytes(@, f.offset, s.src),
                                            !.sector_remaining_bytes = @ - nbytes,
                                            !.offset = @ + nbytes,
                                            !.bytes_in_block = Plus16(@, nbytes),
                                            !.write_head = Plus(@, nbytes)]],
                         !.src = <<>>,
                         !.count = @ + nbytes,
                         !.done = TRUE]
        : f \in {s.m.wf[s.file]}, nbytes \in {Len(s.src)} })

\* m.ret is the count of bytes taken
flogfs_write(m, file, src) ==
    Val({ Ret(flog_unlock_fs(flash_unlock(s.m)), s.count)
        : s \in {Loop(write_step,
                      [m |-> flash_lock(flog_lock_fs(m)), file |-> file, src |-> src,
                       count |-> 0, done |-> FALSE],
                      Len(src) + 2)} })

flogfs_close_write(m, file) ==
    Val({ IF m0.fs.write_head = file
          THEN Val({ Ret(flog_unlock_fs(flash_unlock(m1)), m1.ret)
                   : m1 \in {flog_flush_write(
                                [m0 EXCEPT !.fs.write_head = m0.wf[file].next], file)} })
          \* iter->next through a null write_head
          ELSE IF m0.fs.write_head = NULL /\ m0.ub = "trap"
          THEN Ret(Halt(m0, "fault"), FALSE)
          \* the loop is left by goto failure whether or not the handle was found
          ELSE Val({ Ret(flog_unlock_fs(flash_unlock(
                            IF pred # NULL
                            THEN [m0 EXCEPT !.wf[pred].next = m0.wf[file].next]
                            ELSE m0)), FALSE)
                   : pred \in {ListPred(m0.wf, m0.fs.write_head, file)} })
        : m0 \in {flash_lock(flog_lock_fs(m))} })

(***************************************************************************)
(* flog_inode_prepare_new; m.ret is [ok, iter]                             *)
(***************************************************************************)
flog_inode_prepare_new(m, iter) ==
    IF iter.sector # FS_SECTORS_PER_BLOCK - 2 THEN Ret(m, [ok |-> TRUE, iter |-> iter])
    ELSE
    Val({ IF m1.halt # "run" THEN Ret(m1, [ok |-> FALSE, iter |-> iter]) ELSE
    Val({ IF m2.halt # "run" THEN Ret(m2, [ok |-> FALSE, iter |-> iter]) ELSE
    Val({ IF m3.ret.block = FLOG_BLOCK_IDX_INVALID
          THEN Ret(flog_unlock_allocate(m3), [ok |-> FALSE, iter |-> iter]) ELSE
    Val({
    Val({
    Val({ Ret(flash_commit(
                 flash_write_spare(
                    flash_write_sector(
                       flog_open_sector(m6, block_alloc.block, FLOG_INIT_SECTOR),
                       FLOG_INIT_SECTOR, 0,
                       Slice(PutBytes(tail, 0, Bytes32(t1)), 0, SizeofInodeInit)),
                    FLOG_INIT_SECTOR, FLOG_BLOCK_TYPE_INODE, idx)),
              [ok |-> TRUE,
               iter |-> [iter EXCEPT !.inode_block_idx = idx,
                                     !.next_block = block_alloc.block]])
        : m6 \in {flash_commit(
                     flash_write_sector(
                        flog_open_sector([m4 EXCEPT !.fs.t = t1], iter.block,
                                         FLOG_TAIL_SECTOR),
                        FLOG_TAIL_SECTOR, 0, Slice(tail, 0, SizeofUniversalTail)))} })
        \* buffer_union as the tail sector; the init timestamp is then stored
        \* over its first four bytes
        : tail \in {Bytes16(block_alloc.block) \o Bytes32(Plus(block_alloc.age, 1))
                    \o Bytes32(t1)} })
        : block_alloc \in {m3.ret},
          t1 \in {m3.fs.t + 1},
          idx \in {U16(iter.inode_block_idx + 1)},
          m4 \in {flog_unlock_allocate([m3 EXCEPT !.fs.num_free_blocks = U16(@ - 1)])} })
        : m3 \in {flog_allocate_block(m2, 0)} })
        : m2 \in {flog_flush_dirty_block(m1)} })
        : m1 \in {flog_lock_allocate(m)} })

(***************************************************************************)
(* flogfs_open_write                                                       *)
(***************************************************************************)
\* follow the completed tail sectors: one pass over [m, block, write_head]
open_write_tails_step(s) ==
    Val({
    Val({ IF tail.timestamp = FLOG_TIMESTAMP_INVALID
          THEN [s EXCEPT !.m = m1, !.done = TRUE]
          ELSE [s EXCEPT !.m = m1,
                         !.block = tail.next_block,
                         !.write_head = Plus(@, tail.bytes_in_block)]
        : tail \in {TailOf(flash_read_sector(m1, FLOG_TAIL_SECTOR, 0,
                                             SizeofFileTailHeader))} })
        : m1 \in {flog_open_sector(s.m, s.block, FLOG_TAIL_SECTOR)} })

\* scan the incomplete block for the first sector without data: one pass
\* over [m, block, sector, write_head]
open_write_scan_step(s) ==
    Val({
    Val({ IF nbytes = FLOG_SECTOR_NBYTES_INVALID
          THEN [s EXCEPT !.m = m1, !.done = TRUE]
          ELSE [s EXCEPT !.m = m1,
                         !.sector = flog_increment_sector(@),
                         !.write_head = Plus(@, nbytes)]
        : nbytes \in {flash_sector(m1, s.sector).w} })
        : m1 \in {flog_open_sector(s.m, s.block, s.sector)} })

\* a loop that has not ended within its bound never ends
Ended(s) == IF s.done THEN s.m ELSE Halt(s.m, "hang")

open_write_existing(m, file, find_result) ==
    Val({
    Val({
    Val({
    Val({ Ret([m3 EXCEPT !.wf[file] =
                 [@ EXCEPT !.base_threshold = 0,
                           !.block = t.block,
                           !.id = find_result.file_id,
                           !.sector = c.sector,
                           !.write_head = c.write_head,
                           !.offset = offset,
                           !.sector_remaining_bytes = FS_SECTOR_SIZE - offset]],
              TRUE)
        : m3 \in {Ended(c)},
          offset \in {IF c.sector = FLOG_TAIL_SECTOR THEN SizeofFileTailHeader ELSE 0} })
        \* more sectors with data than a block has: the walk runs in a circle
        : c \in {Loop(open_write_scan_step,
                      [m |-> m2, block |-> t.block,
                       sector |-> flog_increment_sector(FLOG_INIT_SECTOR),
                       write_head |-> Plus(t.write_head,
                                           flash_sector(m2, FLOG_INIT_SECTOR).w),
                       done |-> FALSE],
                      2 * FS_SECTORS_PER_BLOCK)} })
        : m2 \in {flog_open_sector(Ended(t), t.block, FLOG_INIT_SECTOR)} })
        \* more completed blocks than there are blocks: the chain is a cycle
        : t \in {Loop(open_write_tails_step,
                      [m |-> m, block |-> find_result.first_block, write_head |-> 0,
                       done |-> FALSE],
                      FS_NUM_BLOCKS + 1)} })

\* the name an inode entry stores: filename[FLOG_MAX_FNAME_LEN-1] = '\0'
StoredName(filename) ==
    IF Len(filename) >= FLOG_MAX_FNAME_LEN
    THEN SubSeq(filename, 1, FLOG_MAX_FNAME_LEN - 1) ELSE filename

open_write_new(m, file, filename, iter0) ==
    Val({ IF ~m1.ret.ok THEN Ret(m1, FALSE) ELSE
    Val({ IF m2.halt # "run" THEN Ret(m2, FALSE) ELSE
    Val({ IF m3.halt # "run" THEN Ret(m3, FALSE) ELSE
    Val({ IF m4.ret.block = FLOG_BLOCK_IDX_INVALID
          THEN Ret(flog_unlock_allocate(m4), FALSE) ELSE
    Val({ Ret([flash_commit(
                 flash_write_name(
                    flash_write_sector(
                       flog_open_sector(m5, inode_iter.block, inode_iter.sector),
                       inode_iter.sector, 0,
                       Bytes32(file_id) \o Bytes16(alloc_block.block) \o Bytes32(age)
                       \o Bytes32(t1)),
                    inode_iter.sector, StoredName(filename)))
               EXCEPT !.wf[file] =
                [@ EXCEPT !.block = alloc_block.block,
                          !.block_age = age,
                          !.id = file_id,
                          !.bytes_in_block = 0,
                          !.write_head = 0,
                          !.sector = FLOG_INIT_SECTOR,
                          !.offset = SizeofFileInitHeader,
                          !.sector_remaining_bytes =
                              FS_SECTOR_SIZE - SizeofFileInitHeader]],
              TRUE)
        : alloc_block \in {m4.ret},
          inode_iter \in {m1.ret.iter},
          file_id \in {m4.fs.max_file_id + 1},
          age \in {Plus(m4.ret.age, 1)},
          t1 \in {m4.fs.t + 1},
          m5 \in {flog_unlock_allocate(
                    [m4 EXCEPT !.fs.dirty_block = [block |-> m4.ret.block, file |-> file],
                               !.fs.max_file_id = @ + 1,
                               !.fs.t = @ + 1])} })
        : m4 \in {flog_allocate_block(m3, m3.wf[file].base_threshold)} })
        : m3 \in {flog_flush_dirty_block(m2)} })
        \* strcpy of a name that does not fit writes past the buffer
        : m2 \in {flog_lock_allocate(
                    IF Len(filename) >= FLOG_MAX_FNAME_LEN /\ m1.ub = "trap"
                    THEN Halt(m1, "fault") ELSE m1)} })
        : m1 \in {flog_inode_prepare_new([m EXCEPT !.wf[file].base_threshold = 0],
                                         iter0)} })

\* add the handle to the list of write files
LinkWrite(m, file) ==
    IF m.fs.write_head = NULL
    THEN [m EXCEPT !.wf[file].next = NULL, !.fs.write_head = file]
    ELSE Val({ [m EXCEPT !.wf[file].next = NULL, !.wf[last].next = file]
             : last \in {ListLast([m.wf EXCEPT ![file].next = NULL], m.fs.write_head)} })

flogfs_open_write(m, file, filename) ==
    Val({
    Val({ Ret(flog_unlock_fs(flash_unlock(IF m2.ret THEN LinkWrite(m2, file) ELSE m2)),
              m2.ret)
        : m2 \in {IF m1.halt # "run" THEN Ret(m1, FALSE)
                  ELSE IF m1.ret.first_block # FLOG_BLOCK_IDX_INVALID
                  THEN open_write_existing(m1, file, m1.ret)
                  ELSE open_write_new(m1, file, filename, m1.ret.iter)} })
        : m1 \in {flog_find_file(flash_lock(flog_lock_fs(m)), filename)} })

(***************************************************************************)
(* Read path.                                                              *)
(***************************************************************************)
\* add the handle to the list of read files
LinkRead(m, file) ==
    IF m.fs.read_head # NULL
    THEN Val({ [m EXCEPT !.rf[last].next = file]
             : last \in {ListLast(m.rf, m.fs.read_head)} })
    ELSE [m EXCEPT !.fs.read_head = file]

flogfs_open_read(m, file, filename) ==
    IF Len(filename) >= FLOG_MAX_FNAME_LEN THEN Ret(m, FALSE) ELSE
    Val({ IF m1.halt # "run" \/ m1.ret.first_block = FLOG_BLOCK_IDX_INVALID
          THEN Ret(flog_unlock_fs(flash_unlock(m1)), FALSE) ELSE
    Val({
    Val({
    Val({ Ret(flog_unlock_fs(flash_unlock(
                 LinkRead([m3 EXCEPT !.rf[file] =
                            [@ EXCEPT
                               !.block = block,
                               !.id = m1.ret.file_id,
                               !.sector = IF nbytes0 # 0 THEN FLOG_INIT_SECTOR
                                          ELSE flog_increment_sector(FLOG_INIT_SECTOR),
                               !.offset = IF nbytes0 # 0 THEN SizeofFileInitHeader ELSE 0,
                               !.sector_remaining_bytes =
                                  IF nbytes0 # 0 THEN nbytes0
                                  ELSE flash_sector(m3, 1).w,
                               !.next = NULL]], file))),
              TRUE)
        : m3 \in {IF nbytes0 # 0 THEN m2 ELSE flog_open_sector(m2, block, 1)} })
        : nbytes0 \in {flash_sector(m2, FLOG_INIT_SECTOR).w} })
        : m2 \in {flog_open_sector(m1, m1.ret.first_block, FLOG_INIT_SECTOR)},
          block \in {m1.ret.first_block} })
        : m1 \in {flog_find_file(flash_lock(flog_lock_fs(m)), filename)} })

flogfs_close_read(m, file) ==
    Val({ IF m0.fs.read_head = file
          THEN Ret(flog_unlock_fs([m0 EXCEPT !.fs.read_head = m0.rf[file].next]), TRUE)
          \* iter->next through a null read_head
          ELSE IF m0.fs.read_head = NULL /\ m0.ub = "trap"
          THEN Ret(Halt(m0, "fault"), FALSE)
          ELSE Val({ Ret(flog_unlock_fs(
                            IF pred # NULL
                            THEN [m0 EXCEPT !.rf[pred].next = m0.rf[file].next]
                            ELSE m0), FALSE)
                   : pred \in {ListPred(m0.rf, m0.fs.read_head, file)} })
        : m0 \in {flog_lock_fs(m)} })

flogfs_check_exists(m, filename) ==
    Val({ Ret(flog_unlock_fs(flash_unlock(m1)),
              m1.ret.first_block # FLOG_BLOCK_IDX_INVALID)
        : m1 \in {flog_find_file(flash_lock(flog_lock_fs(m)), filename)} })

OffsetOfSector(sector) ==
    IF sector = FLOG_TAIL_SECTOR THEN SizeofFileTailHeader
    ELSE IF sector = FLOG_INIT_SECTOR THEN SizeofFileInitHeader
    ELSE 0

\* the head of the loop of flogfs_read: with no bytes left in the sector,
\* move to the next sector, or to the next block after the tail sector;
\* m.ret is whether the file has ended
read_next_sector(m, file) ==
    Val({ IF f.sector_remaining_bytes # 0 THEN Ret(m, FALSE)
          ELSE IF f.sector = FLOG_TAIL_SECTOR
          THEN
          Val({
          Val({
          Val({
          Val({ IF FileInitOf(flash_read_sector(t2, FLOG_INIT_SECTOR, 0,
                                                SizeofFileInitHeader)).file_id # f.id
                THEN Ret(t2, TRUE)
                ELSE Ret([t2 EXCEPT !.rf[file] =
                            [f EXCEPT !.block = block,
                                      !.sector = sector,
                                      !.sector_remaining_bytes = nbytes,
                                      !.offset = OffsetOfSector(sector)]],
                         FALSE)
              : nbytes \in {flash_sector(t2, FLOG_INIT_SECTOR).w},
                sector \in {IF flash_sector(t2, FLOG_INIT_SECTOR).w = 0
                            THEN flog_increment_sector(FLOG_INIT_SECTOR)
                            ELSE FLOG_INIT_SECTOR} })
              : t2 \in {flog_open_sector(t1, block, FLOG_INIT_SECTOR)} })
              : block \in {TailOf(flash_read_sector(t1, FLOG_TAIL_SECTOR, 0,
                                                    SizeofFileTailHeader)).next_block} })
              : t1 \in {flog_open_sector(m, f.block, FLOG_TAIL_SECTOR)} })
          ELSE
          Val({
          Val({ IF flash_sector(s1, sector).w = FLOG_SECTOR_NBYTES_INVALID
                THEN Ret(s1, TRUE)
                ELSE Ret([s1 EXCEPT !.rf[file] =
                            [f EXCEPT !.sector = sector,
                                      !.sector_remaining_bytes =
                                          flash_sector(s1, sector).w,
                                      !.offset = OffsetOfSector(sector)]],
                         FALSE)
              : s1 \in {flog_open_sector(m, f.block, sector)} })
              : sector \in {flog_increment_sector(f.sector)} })
        : f \in {m.rf[file]} })

\* one pass of the loop of flogfs_read over [m, file, nbytes, dst]
read_step(s) ==
    IF s.nbytes = 0 THEN [s EXCEPT !.done = TRUE]
    ELSE
    Val({ IF ma.ret THEN [s EXCEPT !.m = ma, !.done = TRUE] ELSE
    Val({ IF to_read > 0
          THEN Val({ [s EXCEPT !.m = [r1 EXCEPT !.rf[s.file] =
                                       [f1 EXCEPT !.offset = @ + to_read,
                                                  !.sector_remaining_bytes = @ - to_read,
                                                  !.read_head = Plus(@, to_read)]],
                               !.nbytes = @ - to_read,
                               !.dst = @ \o flash_read_sector(r1, f1.sector, f1.offset,
                                                              to_read)]
                   : r1 \in {flog_open_sector(ma, f1.block, f1.sector)} })
          ELSE [s EXCEPT !.m = ma]
        : f1 \in {ma.rf[s.file]},
          to_read \in {MIN(s.nbytes, ma.rf[s.file].sector_remaining_bytes)} })
        : ma \in {read_next_sector(s.m, s.file)} })

\* passes of the loop of flogfs_read after which it has stopped making
\* progress: every pass over a block yields the bytes of its tail sector
ReadSteps(nbytes) == (nbytes + 2) * (FS_SECTORS_PER_BLOCK + 2)

\* m.ret is the bytes stored to dst
flogfs_read(m, file, nbytes) ==
    Val({ Ret(flog_unlock_fs(flash_unlock(Ended(s))), s.dst)
        : s \in {Loop(read_step,
                      [m |-> flash_lock(flog_lock_fs(m)), file |-> file,
                       nbytes |-> nbytes, dst |-> <<>>, done |-> FALSE],
                      ReadSteps(nbytes))} })

(***************************************************************************)
(* Deletion.                                                               *)
(***************************************************************************)
\* one pass of the loop of flog_invalidate_chain over
\* [m, base, file_id, num_freed]
invalidate_step(s) ==
    IF s.base = FLOG_BLOCK_IDX_INVALID \/ s.m.halt # "run" THEN [s EXCEPT !.done = TRUE]
    ELSE
    Val({ \* an unallocated block ends the walk (goto done)
          IF m1.ret = FLOG_BLOCK_TYPE_UNALLOCATED
          THEN [s EXCEPT !.m = flog_get_block_stat(m1, s.base), !.done = TRUE]
          \* default: while(1);
          ELSE IF m1.ret # FLOG_BLOCK_TYPE_FILE
          THEN [s EXCEPT !.m = Halt(m1, "hang"), !.done = TRUE]
          ELSE
    Val({
    Val({ \* a file block of another file: the loop tests the same block again
          IF s.file_id = FLOG_FILE_ID_INVALID \/ init.file_id # s.file_id
          THEN [s EXCEPT !.m = Halt(m2, "hang"), !.done = TRUE]
          ELSE
    Val({
    Val({ [s EXCEPT
             !.m = [flog_write_block_stat(
                      flash_erase_block(flog_close_sector([m3 EXCEPT !.fs.t = t1]),
                                        s.base),
                      s.base,
                      [age |-> init.age, next_block |-> tail.next_block,
                       next_age |-> tail.next_age, timestamp |-> t1])
                    EXCEPT !.fs.free_block_bitmap =
                              IF s.base \in Blocks THEN [@ EXCEPT ![s.base] = 1] ELSE @,
                           !.fs.free_block_sum = @ + init.age],
             !.base = tail.next_block,
             !.num_freed = @ + 1]
        : tail \in {TailOf(flash_read_sector(m3, FLOG_TAIL_SECTOR, 0,
                                             SizeofFileTailHeader))},
          t1 \in {m3.fs.t + 1} })
        : m3 \in {flog_open_sector(m2, s.base, FLOG_TAIL_SECTOR)} })
        : init \in {FileInitOf(flash_read_sector(m2, FLOG_INIT_SECTOR, 0,
                                                 SizeofFileInitHeader))} })
        : m2 \in {flog_open_sector(m1, s.base, FLOG_INIT_SECTOR)} })
        : m1 \in {flog_get_block_type(s.m, s.base)} })

\* flog_lock_delete and the store of the ceiling, before the loop
invalidate_begin(m) ==
    [flog_lock_delete(m) EXCEPT !.fs.t_allocation_ceiling = m.fs.t]

\* the label done with the store of FLOG_TIMESTAMP_INVALID left out
invalidate_done_keeps_ceiling(m2, num_freed) ==
    Val({ flog_unlock_delete(
             DivTrap([m2 EXCEPT !.fs.num_free_blocks = num,
                                !.fs.mean_free_age =
                                   DivVal(m2.fs.free_block_sum, num)],
                     num))
        : num \in {U16(m2.fs.num_free_blocks + num_freed)} })

\* done: the counters, the ceiling and the delete lock
invalidate_done(m2, num_freed) ==
    Val({ flog_unlock_delete(
             DivTrap([m2 EXCEPT !.fs.num_free_blocks = num,
                                !.fs.mean_free_age =
                                   DivVal(m2.fs.free_block_sum, num),
                                !.fs.t_allocation_ceiling = FLOG_TIMESTAMP_INVALID],
                     num))
        : num \in {U16(m2.fs.num_free_blocks + num_freed)} })

flog_invalidate_chain(m, base, file_id) ==
    Val({
    Val({ IF m2.halt \in {"hang", "deadlock"} THEN m2
          ELSE invalidate_done(m2, s.num_freed)
        : m2 \in {Ended(s)} })
        \* every pass but the last erases a block that was a file block
        : s \in {Loop(invalidate_step,
                      [m |-> invalidate_begin(m),
                       base |-> base, file_id |-> file_id, num_freed |-> 0,
                       done |-> FALSE],
                      FS_NUM_BLOCKS + 2)} })

\* the walk of flogfs_rm to the last block of the chain: one pass over
\* [m, block]
rm_last_block_step(s) ==
    Val({ IF m1.ret = FLOG_BLOCK_IDX_INVALID THEN [s EXCEPT !.m = m1, !.done = TRUE]
          ELSE [s EXCEPT !.m = m1, !.block = m1.ret]
        : m1 \in {flog_universal_get_next_block(s.m, s.block)} })

\* flogfs_rm up to the commit of the invalidation of the inode entry; m.ret
\* is [ok, stuck, first_block, file_id]
rm_invalidate_entry(m, filename) ==
    Val({ IF m1.halt # "run" \/ m1.ret.first_block = FLOG_BLOCK_IDX_INVALID
          THEN Ret(m1, [ok |-> FALSE, stuck |-> FALSE,
                        first_block |-> FLOG_BLOCK_IDX_INVALID,
                        file_id |-> FLOG_FILE_ID_INVALID]) ELSE
    Val({ \* a chain that is a cycle has no last block
          IF ~last.done
          THEN Ret(Halt(last.m, "hang"),
                   [ok |-> FALSE, stuck |-> TRUE,
                    first_block |-> m1.ret.first_block, file_id |-> m1.ret.file_id])
          ELSE Ret(flash_commit(
                      flash_write_sector(
                         flog_open_sector([last.m EXCEPT !.fs.t = @ + 1],
                                          m1.ret.iter.block, m1.ret.iter.sector + 1),
                         m1.ret.iter.sector + 1, 0,
                         Bytes32(last.m.fs.t + 1) \o Bytes16(last.block))),
                   [ok |-> TRUE, stuck |-> FALSE,
                    first_block |-> m1.ret.first_block, file_id |-> m1.ret.file_id])
        : last \in {Loop(rm_last_block_step,
                         [m |-> m1, block |-> m1.ret.first_block, done |-> FALSE],
                         FS_NUM_BLOCKS + 1)} })
        : m1 \in {flog_find_file(flash_lock(flog_lock_fs(m)), filename)} })

flogfs_rm(m, filename) ==
    Val({ IF m4.ret.stuck THEN Ret(m4, FALSE)
          ELSE IF ~m4.ret.ok THEN Ret(flog_unlock_fs(flash_unlock(m4)), FALSE)
          ELSE
    Val({ Ret(flog_unlock_fs(flash_unlock(m5)), TRUE)
        : m5 \in {flog_invalidate_chain(m4, m4.ret.first_block, m4.ret.file_id)} })
        : m4 \in {rm_invalidate_entry(m, filename)} })

(***************************************************************************)
(* Listing: flogfs_start_ls, then flogfs_ls_iterate until it returns 0;    *)
(* m.ret is the sequence of names.                                         *)
(***************************************************************************)
flogfs_start_ls(m) == flog_inode_iterator_init(m, m.fs.inode0)

NoEntry == [found |-> FALSE, name |-> NoName]

\* one pass of the loop of flogfs_ls_iterate over [m, iter, entry]
ls_iterate_step(s) ==
    Val({ IF Get32(flash_read_sector(m1, s.iter.sector, 0, 4), 0) = FLOG_FILE_ID_INVALID
          THEN [s EXCEPT !.m = m1, !.done = TRUE] ELSE
    Val({ IF Get32(flash_read_sector(m2, s.iter.sector + 1, 0, 4), 0)
                = FLOG_TIMESTAMP_INVALID
          THEN Val({
               Val({ [s EXCEPT !.m = m4,
                               !.entry = [found |-> TRUE,
                                          name |-> flash_sector(m3, s.iter.sector).name],
                               !.iter = m4.ret,
                               !.done = TRUE]
                   : m4 \in {flog_inode_iterator_next(m3, s.iter)} })
                   : m3 \in {flog_open_sector(m2, s.iter.block, s.iter.sector)} })
          ELSE Val({ IF m5.ret = s.iter
                     THEN [s EXCEPT !.m = Halt(m5, "hang"), !.done = TRUE]
                     ELSE [s EXCEPT !.m = m5, !.iter = m5.ret]
                   : m5 \in {flog_inode_iterator_next(m2, s.iter)} })
        : m2 \in {flog_open_sector(m1, s.iter.block, s.iter.sector + 1)} })
        : m1 \in {flog_open_sector(s.m, s.iter.block, s.iter.sector)} })

\* one call: m.ret is [found, name, iter]
flogfs_ls_iterate(m, iter) ==
    Val({ Ret(Ended(s), [found |-> s.entry.found, name |-> s.entry.name,
                         iter |-> s.iter])
        : s \in {Loop(ls_iterate_step,
                      [m |-> m, iter |-> iter, entry |-> NoEntry, done |-> FALSE],
                      MaxInodeEntries)} })

\* the caller's loop, one pass over [m, iter, names]; it does not end when
\* the iterator cannot advance
ls_step(s) ==
    Val({ IF ~m1.ret.found \/ m1.halt # "run" THEN [s EXCEPT !.m = m1, !.done = TRUE]
          ELSE IF m1.ret.iter = s.iter
          THEN [s EXCEPT !.m = Halt(m1, "hang"), !.names = Append(@, m1.ret.name),
                         !.done = TRUE]
          ELSE [s EXCEPT !.m = m1, !.iter = m1.ret.iter,
                         !.names = Append(@, m1.ret.name)]
        : m1 \in {flogfs_ls_iterate(s.m, s.iter)} })

ListFiles(m) ==
    Val({
    Val({ Ret(Ended(s), s.names)
        : s \in {Loop(ls_step,
                      [m |-> m1, iter |-> m1.ret, names |-> <<>>, done |-> FALSE],
                      MaxInodeEntries)} })
        : m1 \in {flogfs_start_ls(m)} })

(***************************************************************************)
(* flogfs_format                                                           *)
(***************************************************************************)
\* one block of the loop; m.ret is whether the erase succeeded
format_block(m, i) ==
    Val({ IF flash_block_is_bad(m1) THEN Ret(m1, TRUE)
          ELSE IF i \in m.erasefail THEN Ret(flog_close_sector(m1), FALSE)
          ELSE Ret(flash_commit(
                      flash_write_key(
                         flash_write_sector(
                            flog_open_sector(
                               flash_erase_block(flog_close_sector(m1), i),
                               i, FLOG_BLK_STAT_SECTOR),
                            FLOG_BLK_STAT_SECTOR, 0,
                            StatBytes([age |-> IF flash_sector(m1, FLOG_BLK_STAT_SECTOR).key
                                               THEN Get32(flash_sector(
                                                       m1, FLOG_BLK_STAT_SECTOR).b, 0)
                                               ELSE 0,
                                       next_block |-> FLOG_BLOCK_IDX_INVALID,
                                       next_age |-> FLOG_BLOCK_AGE_INVALID,
                                       timestamp |-> 0])),
                         FLOG_BLK_STAT_SECTOR)),
                   TRUE)
        : m1 \in {flog_open_page(m, i, 0)} })

\* one pass of the loop over the blocks, over [m, i, first_valid, ok]
format_step(s) ==
    Val({ [s EXCEPT !.m = m1,
                    !.i = @ + 1,
                    !.first_valid = IF @ = FLOG_BLOCK_IDX_INVALID /\ m1.ret
                                       /\ s.i \notin s.m.bad
                                    THEN s.i ELSE @,
                    !.ok = m1.ret,
                    !.done = ~m1.ret \/ s.i + 1 = FS_NUM_BLOCKS]
        : m1 \in {format_block(s.m, s.i)} })

flogfs_format(m) ==
    Val({ IF ~s.ok THEN Ret(flash_unlock(flog_unlock_fs(s.m)), FALSE)
          ELSE Ret(flash_unlock(flog_unlock_fs(
                      flash_commit(
                         flash_write_spare(
                            flash_write_sector(
                               flog_open_sector(s.m, s.first_valid, FLOG_INIT_SECTOR),
                               FLOG_INIT_SECTOR, 0,
                               Bytes32(0) \o Bytes16(FLOG_BLOCK_IDX_INVALID)),
                            FLOG_INIT_SECTOR, FLOG_BLOCK_TYPE_INODE, 0)))),
                   TRUE)
        : s \in {Loop(format_step,
                      [m |-> [flog_lock_fs(flash_lock(m)) EXCEPT !.fs.state = "RESET"],
                       i |-> 0, first_valid |-> FLOG_BLOCK_IDX_INVALID, ok |-> TRUE,
                       done |-> FALSE],
                      FS_NUM_BLOCKS)} })

(***************************************************************************)
(* flogfs_mount                                                            *)
(***************************************************************************)
\* the locals of flogfs_mount
MountLocals ==
    [last_allocation |-> [block |-> FLOG_BLOCK_IDX_INVALID, age |-> 0,
                          file_id |-> UNDEFV, timestamp |-> 0,
                          block_type |-> UNDEFV],
     last_deletion |-> [first_block |-> UNDEFV, last_block |-> UNDEFV,
                        file_id |-> FLOG_FILE_ID_INVALID, timestamp |-> 0],
     inode0_idx |-> FLOG_BLOCK_IDX_INVALID,
     new_inode0_idx |-> FLOG_BLOCK_IDX_INVALID,
     init_buffer_union |-> [i \in 1 .. SizeofFileInitHeader |-> UNDEF],
     ok |-> TRUE]

\* the update of inode0_idx / new_inode0_idx for a block with inode_index 0
mount_inode0(m, i, L) ==
    IF L.inode0_idx = FLOG_BLOCK_IDX_INVALID
    THEN Ret(m, [L EXCEPT !.inode0_idx = i])
    ELSE LET m1 == flog_block_get_init_timestamp(m, L.inode0_idx)
             m2 == flog_block_get_init_timestamp(m1, i)
         IN  IF UGt(m1.ret, m2.ret)
             THEN Ret(m2, [L EXCEPT !.new_inode0_idx = L.inode0_idx, !.inode0_idx = i])
             ELSE Ret(m2, [L EXCEPT !.new_inode0_idx = i])

\* update_last_allocation:
UpdateLastAllocation(L, tail, id, type) ==
    [L EXCEPT !.last_allocation =
        [block |-> tail.next_block, age |-> tail.next_age, file_id |-> id,
         timestamp |-> tail.timestamp, block_type |-> type]]

IsNewest(tail, L) ==
    /\ tail.timestamp # FLOG_TIMESTAMP_INVALID
    /\ UGt(tail.timestamp, L.last_allocation.timestamp)

\* one block of the first pass; m.ret is the locals
mount_block(m, i, L) ==
    Val({ IF flash_block_is_bad(m1) THEN Ret(m1, L) ELSE
    Val({ IF type = FLOG_BLOCK_TYPE_INODE
          THEN Val({ IF IsNewest(mt.ret, mi.ret)
                     THEN Ret(mi, UpdateLastAllocation(mi.ret, mt.ret, i,
                                                       FLOG_BLOCK_TYPE_INODE))
                     ELSE Ret(flog_block_get_age(mi, i), mi.ret)
                   : mi \in {IF flash_sector(m1, FLOG_INIT_SECTOR).w = 0
                             THEN mount_inode0(mt, i, L) ELSE Ret(mt, L)} })
          ELSE IF type = FLOG_BLOCK_TYPE_FILE
          THEN Val({
               Val({ IF IsNewest(mt.ret, Lf)
                     THEN Ret(mf, UpdateLastAllocation(Lf, mt.ret, mf.ret.file_id,
                                                       FLOG_BLOCK_TYPE_FILE))
                     ELSE Ret(flog_block_get_age(
                                 IF UGt(mf.ret.file_id, mf.fs.max_file_id)
                                 THEN [mf EXCEPT !.fs.max_file_id = mf.ret.file_id]
                                 ELSE mf, i),
                              Lf)
                   : Lf \in {[L EXCEPT !.init_buffer_union =
                                Slice(flash_sector(mf, FLOG_INIT_SECTOR).b, 0,
                                      SizeofFileInitHeader)]} })
                   : mf \in {flog_get_file_init_sector(mt, i)} })
          ELSE IF type = FLOG_BLOCK_TYPE_UNALLOCATED
          THEN Val({ Ret(flog_block_get_age(
                            [mu EXCEPT !.fs.num_free_blocks = U16(@ + 1),
                                       !.fs.free_block_bitmap[i] = 1,
                                       !.fs.free_block_sum = @ + mu.ret.age], i),
                         L)
                   : mu \in {flog_get_block_stat(m1, i)} })
          ELSE Ret(m1, [L EXCEPT !.ok = FALSE])
        : type \in {flash_sector(m1, FLOG_INIT_SECTOR).type},
          mt \in {flog_get_universal_tail_sector(m1, i)} })
        : m1 \in {flash_open_page(m, i, 0)} })

\* the first pass, over all blocks: one pass over [m, i, L]
mount_blocks_step(s) ==
    Val({ [s EXCEPT !.m = m1, !.i = @ + 1, !.L = m1.ret,
                    !.done = ~m1.ret.ok \/ s.i + 1 = FS_NUM_BLOCKS]
        : m1 \in {mount_block(s.m, s.i, s.L)} })

\* a mount that takes no account of the ids in the inode entries
mount_max_file_id_forgotten(m, file_id) == m

\* keep track of the maximum file id, over every inode entry
mount_max_file_id(m, file_id) ==
    IF UGt(file_id, m.fs.max_file_id)
    THEN [m EXCEPT !.fs.max_file_id = file_id] ELSE m

\* the second pass, over the inode chain: one pass over [m, iter, L]
mount_inodes_step(s) ==
    Val({
    Val({ IF alloc.file_id = FLOG_FILE_ID_INVALID
          THEN [s EXCEPT !.m = m1, !.done = TRUE] ELSE
    Val({
    Val({
    Val({ IF m4.ret = s.iter
          THEN [s EXCEPT !.m = Halt(m4, "hang"), !.L = L2, !.done = TRUE]
          ELSE [s EXCEPT !.m = m4, !.iter = m4.ret, !.L = L2]
        : m4 \in {flog_inode_iterator_next(
                     mount_max_file_id(m2, alloc.file_id), s.iter)},
          L2 \in {IF inval.timestamp = FLOG_TIMESTAMP_INVALID
                  THEN IF UGt(alloc.timestamp, s.L.last_allocation.timestamp)
                       THEN [s.L EXCEPT !.init_buffer_union = PutBytes(@, 0, raw),
                                        !.last_allocation =
                                           [block |-> alloc.first_block,
                                            file_id |-> alloc.file_id,
                                            age |-> alloc.first_block_age,
                                            timestamp |-> alloc.timestamp,
                                            block_type |-> FLOG_BLOCK_TYPE_FILE]]
                       ELSE [s.L EXCEPT !.init_buffer_union = PutBytes(@, 0, raw)]
                  ELSE IF UGt(inval.timestamp, s.L.last_deletion.timestamp)
                       THEN [s.L EXCEPT !.init_buffer_union = PutBytes(@, 0, raw),
                                        !.last_deletion =
                                           [first_block |-> alloc.first_block,
                                            last_block |-> inval.last_block,
                                            file_id |-> alloc.file_id,
                                            timestamp |-> inval.timestamp]]
                       ELSE [s.L EXCEPT !.init_buffer_union = PutBytes(@, 0, raw)]} })
        : inval \in {InodeInvalOf(raw)} })
        : m2 \in {flog_open_sector(m1, s.iter.block, s.iter.sector + 1)},
          raw \in {flash_read_sector(
                      flog_open_sector(m1, s.iter.block, s.iter.sector + 1),
                      s.iter.sector + 1, 0, SizeofInodeInvalidation)} })
        : alloc \in {InodeAllocOf(flash_read_sector(m1, s.iter.sector, 0,
                                                    SizeofInodeAllocHeader))} })
        : m1 \in {flog_open_sector(s.m, s.iter.block, s.iter.sector)} })

\* "Go check and (maybe) clean the last allocation"
mount_recover_allocation(m, L) ==
    Val({ IF la.timestamp = 0 THEN m
          ELSE IF la.block_type = FLOG_BLOCK_TYPE_FILE
          THEN Val({ IF FileInitOf(flash_read_sector(f1, FLOG_INIT_SECTOR, 0,
                                                     SizeofFileInitHeader)).file_id
                           = la.file_id
                     THEN f1
                     ELSE [TakeFree(
                             flash_commit(
                                flash_write_spare(
                                   flash_write_sector(
                                      f1, FLOG_INIT_SECTOR, 0,
                                      Bytes32(la.age) \o Bytes32(la.file_id)
                                      \o Bytes32(la.timestamp)),
                                   FLOG_INIT_SECTOR, FLOG_BLOCK_TYPE_FILE, 0)),
                             la.age)
                           EXCEPT !.fs.t = la.timestamp + 1]
                   : f1 \in {flog_open_sector(m, la.block, FLOG_INIT_SECTOR)} })
          ELSE IF la.block_type = FLOG_BLOCK_TYPE_INODE
          THEN Val({ IF i1.ret = FLOG_BLOCK_TYPE_INODE THEN i1
                     ELSE TakeFree(
                             flash_commit(
                                \* the spare is written from init_buffer_union, not
                                \* from inode_init_spare
                                flash_write_spare(
                                   flash_write_sector(
                                      flog_open_sector(
                                         flog_open_sector(i1, U16(la.file_id),
                                                          FLOG_INIT_SECTOR),
                                         la.block, FLOG_INIT_SECTOR),
                                      FLOG_INIT_SECTOR, 0,
                                      Bytes32(la.timestamp) \o Bytes16(U16(la.file_id))),
                                   FLOG_INIT_SECTOR, L.init_buffer_union[1],
                                   Get16(L.init_buffer_union, 2))),
                             la.age)
                   : i1 \in {flog_get_block_type(m, la.block)} })
          ELSE m
        : la \in {L.last_allocation} })

\* "Verify the completion of the most recent deletion operation"
mount_recover_deletion(m, L) ==
    Val({ IF ld.timestamp = 0 THEN m ELSE
    Val({ IF m1.ret # FLOG_BLOCK_TYPE_FILE THEN m1 ELSE
    Val({ IF FileInitOf(flash_read_sector(m2, FLOG_INIT_SECTOR, 0,
                                          SizeofFileInitHeader)).file_id # ld.file_id
          THEN m2 ELSE
    Val({ \* universal_invalidation_header.timestamp: the first word of the sector
          IF Get32(flash_read_sector(m3, FLOG_BLK_STAT_SECTOR, 0, 4), 0)
               = FLOG_TIMESTAMP_INVALID
          THEN m3
          ELSE flog_invalidate_chain(m3, ld.first_block, ld.file_id)
        : m3 \in {flog_open_sector(m2, ld.last_block, FLOG_BLK_STAT_SECTOR)} })
        : m2 \in {flog_open_sector(m1, ld.last_block, FLOG_INIT_SECTOR)} })
        : m1 \in {flog_get_block_type(m, ld.last_block)} })
        : ld \in {L.last_deletion} })

MountFailure(m) == Ret(flog_unlock_fs(flash_unlock(m)), FALSE)

\* a mount of a mounted filesystem that starts over
mount_when_mounted_again(m) ==
    Ret(flog_unlock_fs([m EXCEPT !.fs.num_free_blocks = 0,
                                 !.fs.max_file_id = 0,
                                 !.fs.read_head = NULL,
                                 !.fs.write_head = NULL]), TRUE)
\* the filesystem is mounted already: nothing to do
mount_when_mounted(m) == Ret(flog_unlock_fs(m), TRUE)

flogfs_mount(m) ==
    Val({ IF m0.fs.state = "MOUNTED" THEN mount_when_mounted(m0) ELSE
    Val({ IF ~b.L.ok THEN MountFailure(b.m) ELSE
    Val({ IF b.L.inode0_idx = FLOG_BLOCK_IDX_INVALID THEN MountFailure(m3) ELSE
    Val({
    Val({
    Val({ IF m5.halt # "run" THEN Ret(m5, FALSE) ELSE
    Val({
    Val({ Ret(flog_unlock_fs(flash_unlock([m7 EXCEPT !.fs.state = "MOUNTED"])), TRUE)
        : m7 \in {mount_recover_deletion(m6, c.L)} })
        : m6 \in {mount_recover_allocation(m5, c.L)} })
        \* an inode chain that is a cycle is walked for ever
        : m5 \in {Ended(c)} })
        : c \in {Loop(mount_inodes_step,
                      [m |-> m4, iter |-> m4.ret, L |-> b.L, done |-> FALSE],
                      MaxInodeEntries)} })
        : m4 \in {flog_inode_iterator_init(m3, b.L.inode0_idx)} })
        : m3 \in {DivTrap([b.m EXCEPT !.fs.mean_free_age =
                              DivVal(b.m.fs.free_block_sum, b.m.fs.num_free_blocks)],
                          b.m.fs.num_free_blocks)} })
        : b \in {Loop(mount_blocks_step,
                      [m |-> [flash_lock(m0) EXCEPT
                                !.fs.free_block_bitmap = [x \in Blocks |-> 0],
                                !.fs.num_free_blocks = 0,
                                !.fs.t_allocation_ceiling = FLOG_TIMESTAMP_INVALID,
                                !.fs.max_file_id = 0,
                                !.fs.cache_status = [current_open_block |-> 0,
                                                     current_open_page |-> 0,
                                                     page_open |-> 0,
                                                     page_open_result |-> FALSE],
                                !.fs.read_head = NULL,
                                !.fs.write_head = NULL,
                                !.fs.dirty_block.block = FLOG_BLOCK_IDX_INVALID],
                       i |-> 0, L |-> MountLocals, done |-> FALSE],
                      FS_NUM_BLOCKS)} })
        : m0 \in {flog_lock_fs(m)} })

(***************************************************************************)
(* The system: the flash array, the driver's page register, the static     *)
(* flogfs_t, the caller's file handles, and whether the processor runs.    *)
(* hist records what the caller has asked for and been told.               *)
(***************************************************************************)
VARIABLES flash, drv, fs, wf, rf, power, bad, hist, thr

vars == <<flash, drv, fs, wf, rf, power, bad, hist, thr>>

WriteHandles == {"w1", "w2"}
ReadHandles == {"r1"}
\* the names the ghost record keeps account of
Names == {"a", "b", "c"}
\* a name of FLOG_MAX_FNAME_LEN characters or more
LongName == "abcdefghijklmnopqrstuvwxyz0123456789"
\* power never fails within this many flash operations
BigFuel == 1000
\* the size of the caller's read buffer
ReadCap == 400
\* file contents: the byte at position k of a file is k modulo DataMod
DataMod == 251

Data(at, n) == [i \in 1 .. n |-> (at + i - 1) % DataMod]
Expect(n) == Data(0, n)

ClosedDrv == [block |-> 0, page |-> 0,
              secs |-> [i \in 0 .. FS_SECTORS_PER_PAGE - 1 |-> ErasedSector]]
NoWriteFiles == [h \in WriteHandles |-> UninitWrite]
NoReadFiles == [h \in ReadHandles |-> UninitRead]

\* RAM after reset and flogfs_init
Boot(fl, bd) ==
    flogfs_init([flash |-> fl, drv |-> ClosedDrv, fs |-> ZeroFs,
                 wf |-> NoWriteFiles, rf |-> NoReadFiles,
                 fuel |-> BigFuel, halt |-> "run", bad |-> bd, erasefail |-> {},
                 oob |-> 0, ub |-> "benign", ret |-> 0])

\* the machine an operation starts from
Machine(fuel, oob, ub) ==
    [flash |-> flash, drv |-> drv, fs |-> fs, wf |-> wf, rf |-> rf,
     fuel |-> fuel, halt |-> "run", bad |-> bad, erasefail |-> {},
     oob |-> oob, ub |-> ub, ret |-> 0]

\* the FILE blocks of the media fl whose committed tail sector names a
\* successor block that has not been claimed
Handoffs(fl) ==
    { b \in Blocks :
        /\ fl[b][FLOG_INIT_SECTOR].type = FLOG_BLOCK_TYPE_FILE
        /\ TailOf(fl[b][FLOG_TAIL_SECTOR].b).next_block \in Blocks
        /\ fl[TailOf(fl[b][FLOG_TAIL_SECTOR].b).next_block][FLOG_INIT_SECTOR].type
              = FLOG_BLOCK_TYPE_UNALLOCATED }

\* the blocks of the media fl that carry the file id
BlocksOf(fl, id) ==
    { b \in Blocks : /\ fl[b][FLOG_INIT_SECTOR].type = FLOG_BLOCK_TYPE_FILE
                     /\ FileInitOf(fl[b][FLOG_INIT_SECTOR].b).file_id = id }

FreeOnMedia(fl) ==
    { b \in Blocks : fl[b][FLOG_INIT_SECTOR].type = FLOG_BLOCK_TYPE_UNALLOCATED }

RECURSIVE SumOfAges(_, _)
SumOfAges(fl, S) ==
    IF S = {} THEN 0
    ELSE Val({ StatOf(fl[b][FLOG_BLK_STAT_SECTOR].b).age + SumOfAges(fl, S \ {b})
             : b \in {CHOOSE x \in S : TRUE} })

\* the payload bytes of a full block
BlockPayload ==
    FS_SECTOR_SIZE * (FS_SECTORS_PER_BLOCK - 1)
        - SizeofFileInitHeader - SizeofFileTailHeader

NoArg == [h |-> NULL, name |-> NULL, n |-> 0]
\* before any remove
NoRm == [id |-> 0, blocks |-> {}, halt |-> "run"]

NoHist ==
    [trace |-> <<>>, oks |-> <<>>,
     last |-> [op |-> "boot", ok |-> TRUE, arg |-> NoArg],
     wname |-> [h \in WriteHandles |-> NULL],
     rname |-> [h \in ReadHandles |-> NULL],
     rd |-> [h \in ReadHandles |-> <<>>],
     eof |-> [h \in ReadHandles |-> FALSE],
     live |-> {}, wlen |-> [n \in Names |-> 0], ids |-> <<>>,
     nfree0 |-> 0, rm |-> NoRm]

\* two callers of the filesystem: a writer, which is idle or has filled the
\* page register and not yet committed it, and a lister with its iterator
NoThreads == [w |-> "idle", l |-> "idle", iter |-> NULL, names |-> <<>>]

Init ==
    /\ flash = ErasedFlash
    /\ drv = ClosedDrv
    /\ fs = Boot(ErasedFlash, {}).fs
    /\ wf = NoWriteFiles
    /\ rf = NoReadFiles
    /\ power = "run"
    /\ bad = {}
    /\ hist = NoHist
    /\ thr = NoThreads

\* the state an operation leaves: a processor that has stopped keeps the
\* flash as it is, and its RAM is of no further use
Settle(m, h1) ==
    /\ flash' = m.flash
    /\ power' = m.halt
    /\ drv' = IF m.halt = "run" THEN m.drv ELSE ClosedDrv
    /\ fs' = IF m.halt = "run" THEN m.fs ELSE Boot(m.flash, bad).fs
    /\ wf' = IF m.halt = "run" THEN m.wf ELSE NoWriteFiles
    /\ rf' = IF m.halt = "run" THEN m.rf ELSE NoReadFiles
    /\ bad' = bad
    /\ hist' = h1

\* a whole operation by one caller
Leave(m, h1) == Settle(m, h1) /\ thr' = thr

DidTo(op, arg, ok) ==
    [hist EXCEPT !.trace = Append(@, op), !.oks = Append(@, ok),
                 !.last = [op |-> op, ok |-> ok, arg |-> arg]]
Did(op, ok) == DidTo(op, NoArg, ok)
Ok(m) == m.halt = "run" /\ m.ret = TRUE

Format(fuel) ==
    /\ power = "run"
    /\ \E m \in {flogfs_format(Machine(fuel, 0, "benign"))} :
          Leave(m, [Did("format", Ok(m)) EXCEPT
                       !.live = {}, !.wlen = [n \in Names |-> 0], !.ids = <<>>])

Mount(fuel, ub) ==
    /\ power = "run"
    /\ \E m \in {flogfs_mount(Machine(fuel, 0, ub))} : Leave(m, Did("mount", Ok(m)))

\* whether open_write will create the file
IsNew(name) ==
    flog_find_file(Machine(BigFuel, 0, "benign"), name).ret.first_block
        = FLOG_BLOCK_IDX_INVALID

OpenWrite(h, name, fuel, oob, ub) ==
    /\ power = "run"
    /\ hist.wname[h] = NULL
    /\ \E m \in {flogfs_open_write(Machine(fuel, oob, ub), h, name)},
          new \in {IsNew(name)} :
          Leave(m, IF ~Ok(m) THEN DidTo("open_write", [h |-> h, name |-> name, n |-> 0], FALSE)
                   ELSE IF new
                   THEN [DidTo("open_write", [h |-> h, name |-> name, n |-> 0], TRUE) EXCEPT
                            !.wname[h] = name,
                            !.live = @ \cup {name},
                            !.wlen = IF name \in Names
                                     THEN [@ EXCEPT ![name] = 0] ELSE @,
                            !.ids = Append(@, m.wf[h].id),
                            !.nfree0 = fs.num_free_blocks]
                   ELSE [DidTo("open_write", [h |-> h, name |-> name, n |-> 0], TRUE)
                            EXCEPT !.wname[h] = name])

Write(h, n, fuel, oob, ub) ==
    /\ power = "run"
    /\ hist.wname[h] \in Names
    /\ \E m \in {flogfs_write(Machine(fuel, oob, ub), h,
                              Data(hist.wlen[hist.wname[h]], n))} :
          Leave(m, IF m.halt = "run"
                   THEN [DidTo("write", [h |-> h, name |-> hist.wname[h], n |-> n],
                               m.ret = n) EXCEPT
                            !.wlen[hist.wname[h]] = @ + m.ret]
                   ELSE DidTo("write", [h |-> h, name |-> hist.wname[h], n |-> n],
                              FALSE))

CloseWrite(h, fuel, oob, ub) ==
    /\ power = "run"
    /\ hist.wname[h] # NULL
    /\ \E m \in {flogfs_close_write(Machine(fuel, oob, ub), h)} :
          Leave(m, [DidTo("close_write", [h |-> h, name |-> hist.wname[h], n |-> 0],
                          Ok(m)) EXCEPT !.wname[h] = NULL])

OpenRead(h, name) ==
    /\ power = "run"
    /\ hist.rname[h] = NULL
    /\ \E m \in {flogfs_open_read(Machine(BigFuel, 0, "benign"), h, name)} :
          Leave(m, IF Ok(m)
                   THEN [Did("open_read", TRUE) EXCEPT
                            !.rname[h] = name, !.rd[h] = <<>>, !.eof[h] = FALSE]
                   ELSE Did("open_read", FALSE))

Read(h, n) ==
    /\ power = "run"
    /\ hist.rname[h] # NULL
    /\ \E m \in {flogfs_read(Machine(BigFuel, 0, "benign"), h, n)} :
          Leave(m, IF m.halt = "run"
                   THEN [Did("read", TRUE) EXCEPT
                            !.rd[h] = @ \o m.ret, !.eof[h] = Len(m.ret) < n]
                   ELSE Did("read", FALSE))

CloseRead(h) ==
    /\ power = "run"
    /\ hist.rname[h] # NULL
    /\ \E m \in {flogfs_close_read(Machine(BigFuel, 0, "benign"), h)} :
          Leave(m, [Did("close_read", Ok(m)) EXCEPT !.rname[h] = NULL])

Remove(name, fuel, ub) ==
    /\ power = "run"
    /\ \E m \in {flogfs_rm(Machine(fuel, 0, ub), name)},
          id \in {flog_find_file(Machine(BigFuel, 0, "benign"), name).ret.file_id} :
          Leave(m, [DidTo("rm", [h |-> NULL, name |-> name, n |-> 0], Ok(m))
                      EXCEPT !.live = IF Ok(m) THEN @ \ {name} ELSE @,
                             !.rm = [id |-> id, blocks |-> BlocksOf(flash, id),
                                     halt |-> m.halt]])

\* power is removed (if it was not already lost) and restored; the boot code
\* calls flogfs_init
PowerCycle ==
    /\ flash' = flash
    /\ bad' = bad
    /\ power' = "run"
    /\ drv' = ClosedDrv
    /\ fs' = Boot(flash, bad).fs
    /\ wf' = NoWriteFiles
    /\ rf' = NoReadFiles
    /\ hist' = [Did("power", TRUE) EXCEPT
                   !.wname = [h \in WriteHandles |-> NULL],
                   !.rname = [h \in ReadHandles |-> NULL]]
    /\ thr' = NoThreads

\* every operation so far has reported success
AllOk == \A i \in 1 .. Len(hist.oks) : hist.oks[i]

IsPrefix(s, t) == Len(s) <= Len(t) /\ s = SubSeq(t, 1, Len(s))

(***************************************************************************)
(* Write sessions on one file, and reads of it: no power loss.             *)
(***************************************************************************)
MaxOpsRW == 10
LensRW == {0, 3, 4, 20, 84, 88}

NextRW ==
    \/ Len(hist.trace) = 0 /\ Format(BigFuel)
    \/ hist.last.op = "format" /\ Mount(BigFuel, "benign")
    \/ Len(hist.trace) \in 2 .. MaxOpsRW - 1
       /\ OpenWrite("w1", "a", BigFuel, 0, "benign")
    \/ Len(hist.trace) < MaxOpsRW
       /\ \E n \in LensRW : Write("w1", n, BigFuel, 0, "benign")
    \/ Len(hist.trace) < MaxOpsRW /\ CloseWrite("w1", BigFuel, 0, "benign")
    \/ Len(hist.trace) \in 2 .. MaxOpsRW - 1 /\ hist.wname["w1"] = NULL
       /\ OpenRead("r1", "a")
    \/ Len(hist.trace) < MaxOpsRW /\ Read("r1", ReadCap)

SpecRW == Init /\ [][NextRW]_vars

(***************************************************************************)
(* One file written in one session on a fresh filesystem and read back in  *)
(* chunks: no power loss.                                                  *)
(***************************************************************************)
MaxOpsRT == 9
LensRT == {0, 1, 3, 4, 5, 20, 83, 84, 85, 88, 89, 92, 176, 177, 200, 264}
ChunkRT == 50

NextRT ==
    \/ Len(hist.trace) = 0 /\ Format(BigFuel)
    \/ hist.last.op = "format" /\ Mount(BigFuel, "benign")
    \/ hist.last.op = "mount" /\ OpenWrite("w1", "a", BigFuel, 0, "benign")
    \/ hist.last.op = "open_write"
       /\ \E n \in LensRT : Write("w1", n, BigFuel, 0, "benign")
    \/ hist.last.op = "write" /\ CloseWrite("w1", BigFuel, 0, "benign")
    \/ hist.last.op = "close_write" /\ OpenRead("r1", "a")
    \/ Len(hist.trace) < MaxOpsRT /\ \E n \in {ChunkRT, ReadCap} : Read("r1", n)

SpecRT == Init /\ [][NextRT]_vars

\* C1: on a fresh filesystem, a new file written in one session and closed is
\* read back exactly: what the reads have returned so far is a prefix of the
\* data written, a read that comes back short has delivered all of it, and
\* nothing is delivered after that.
C1_RoundTrip ==
    (hist.rname["r1"] = "a" /\ power = "run" /\ AllOk)
        => /\ IsPrefix(hist.rd["r1"], Expect(hist.wlen["a"]))
           /\ hist.eof["r1"] => hist.rd["r1"] = Expect(hist.wlen["a"])

\* C2: after any number of successful write sessions on a file, reading it to
\* the end yields exactly the bytes the writes reported as written, in order:
\* what has been read so far is a prefix of them, and a read that comes back
\* short has delivered them all.
C2_AppendAcrossSessions ==
    (hist.rname["r1"] = "a" /\ power = "run" /\ AllOk)
        => /\ IsPrefix(hist.rd["r1"], Expect(hist.wlen["a"]))
           /\ hist.eof["r1"] => hist.rd["r1"] = Expect(hist.wlen["a"])

(***************************************************************************)
(* Power loss inside the mutating operations.  An operation started with   *)
(* fuel f loses power at its (f+1)-th program or erase step.               *)
(***************************************************************************)
\* what a caller sees of one file after a cold start
FileView(m, name) ==
    Val({ IF m1.halt = "run" /\ m1.ret = TRUE
          THEN Val({ [open |-> TRUE, halt |-> m2.halt,
                      data |-> IF m2.halt = "run" THEN m2.ret ELSE <<>>]
                   : m2 \in {flogfs_read(m1, "r1", ReadCap)} })
          ELSE [open |-> FALSE, halt |-> m1.halt, data |-> <<>>]
        : m1 \in {flogfs_open_read(m, "r1", name)} })

\* what a cold start on the media fl shows: the result of mount, the
\* listing, and for every name whether it exists and what reading it yields,
\* and the number of free blocks
Observe(fl) ==
    Val({ IF ~Ok(m) THEN [mounted |-> FALSE, halt |-> m.halt]
          ELSE [mounted |-> TRUE, halt |-> m.halt,
                ls |-> ListFiles(m).ret,
                exists |-> [n \in Names |-> flogfs_check_exists(m, n).ret],
                files |-> [n \in Names |-> FileView(m, n)],
                nfree |-> m.fs.num_free_blocks]
        : m \in {flogfs_mount(Boot(fl, bad))} })

MaxOpsC == 7
MaxFuelC == 7
FuelsC == (0 .. MaxFuelC) \cup {BigFuel}
LensC == {20, 84}

NextC ==
    \/ Len(hist.trace) = 0 /\ Format(BigFuel)
    \/ hist.last.op \in {"format", "power"} /\ Mount(BigFuel, "benign")
    \/ Len(hist.trace) < MaxOpsC /\ fs.state = "MOUNTED"
       /\ \E f \in FuelsC : OpenWrite("w1", "a", f, 0, "benign")
    \/ Len(hist.trace) < MaxOpsC
       /\ \E n \in LensC, f \in FuelsC : Write("w1", n, f, 0, "benign")
    \/ Len(hist.trace) < MaxOpsC
       /\ \E f \in FuelsC : CloseWrite("w1", f, 0, "benign")
    \/ Len(hist.trace) < MaxOpsC /\ fs.state = "MOUNTED" /\ hist.wname["w1"] = NULL
       /\ \E f \in FuelsC : Remove("a", f, "benign")
    \/ power = "off" /\ PowerCycle

SpecC == Init /\ [][NextC]_vars

\* the media the operation that has just lost power would have left, had it
\* run to completion
Completed ==
    CASE hist'.last.op = "open_write" ->
            flogfs_open_write(Machine(BigFuel, 0, "benign"),
                              hist'.last.arg.h, hist'.last.arg.name).flash
      [] hist'.last.op = "write" ->
            flogfs_write(Machine(BigFuel, 0, "benign"), hist'.last.arg.h,
                         Data(hist.wlen[hist'.last.arg.name], hist'.last.arg.n)).flash
      [] hist'.last.op = "close_write" ->
            flogfs_close_write(Machine(BigFuel, 0, "benign"), hist'.last.arg.h).flash
      [] hist'.last.op = "rm" ->
            flogfs_rm(Machine(BigFuel, 0, "benign"), hist'.last.arg.name).flash

\* C3: when power is lost inside open_write, write, close_write or remove,
\* what the next cold mount shows (listing, existence, contents of every
\* file, number of free blocks) is what it would have shown before the
\* operation or what it would have shown after the completed operation.
C3_CrashAtomicity ==
    [][(power = "run" /\ power' = "off"
           /\ hist'.last.op \in {"open_write", "write", "close_write", "rm"})
        => Observe(flash') \in {Observe(flash), Observe(Completed)}]_vars

\* C4: when power was lost in a write after the old block's tail sector was
\* committed and before the successor's init sector was written, the next
\* mount stamps the successor as a FILE block of the file, reading the file
\* yields exactly the bytes of the committed sectors, and the successor is
\* counted as allocated by num_free_blocks, the free bitmap and
\* free_block_sum.
C4_InterruptedHandoff ==
    [][(/\ hist'.last.op = "mount" /\ hist'.last.ok
        /\ hist.last.op = "power"
        /\ hist.trace[Len(hist.trace) - 1] = "write"
        /\ ~hist.oks[Len(hist.trace) - 1]
        /\ \A i \in 1 .. Len(hist.trace) - 1 :
              hist.trace[i] \notin {"power", "close_write", "rm"}
        /\ Handoffs(flash) # {})
        => \A b \in Handoffs(flash) :
             \E nb \in {TailOf(flash[b][FLOG_TAIL_SECTOR].b).next_block},
                id \in {FileInitOf(flash[b][FLOG_INIT_SECTOR].b).file_id} :
                /\ nb \in BlocksOf(flash', id)
                /\ FileView(Machine(BigFuel, 0, "benign"), "a")'.data
                      = Expect(BlockPayload * Cardinality(BlocksOf(flash, id)))
                /\ fs'.num_free_blocks = Cardinality(FreeOnMedia(flash'))
                /\ fs'.free_block_bitmap[nb] = 0
                /\ fs'.free_block_sum = SumOfAges(flash', FreeOnMedia(flash'))]_vars

(***************************************************************************)
(* One file written, closed and removed, with power loss inside remove and *)
(* a cold mount afterwards.  A read of the free bitmap past the end of the *)
(* array yields either bit value.                                          *)
(***************************************************************************)
MaxOpsD == 8
MaxFuelD == 6
FuelsD == (0 .. MaxFuelD) \cup {BigFuel}
LensD == {20, 88}
OobBits == {0, 1}

NextD ==
    \/ Len(hist.trace) = 0 /\ Format(BigFuel)
    \/ hist.last.op \in {"format", "power"} /\ Mount(BigFuel, "benign")
    \/ Len(hist.trace) < MaxOpsD - 1 /\ fs.state = "MOUNTED" /\ hist.rm = NoRm
       /\ \E oob \in OobBits : OpenWrite("w1", "a", BigFuel, oob, "benign")
    \/ Len(hist.trace) < MaxOpsD - 1
       /\ \E n \in LensD, oob \in OobBits : Write("w1", n, BigFuel, oob, "benign")
    \/ Len(hist.trace) < MaxOpsD - 1
       /\ \E oob \in OobBits : CloseWrite("w1", BigFuel, oob, "benign")
    \/ Len(hist.trace) < MaxOpsD /\ fs.state = "MOUNTED" /\ hist.wname["w1"] = NULL
       /\ "a" \in hist.live
       /\ \E f \in FuelsD : Remove("a", f, "benign")
    \/ (power # "run" \/ hist.last.op = "rm") /\ PowerCycle

SpecD == Init /\ [][NextD]_vars

\* a cold mount has just followed a remove of the only file ever created
AfterRemove ==
    /\ hist.last.op = "mount" /\ hist.last.ok
    /\ Len(hist.trace) >= 3
    /\ hist.trace[Len(hist.trace) - 1] = "power"
    /\ hist.trace[Len(hist.trace) - 2] = "rm"
    /\ Len(hist.ids) = 1
    /\ \A i \in 1 .. Len(hist.trace) - 3 : hist.oks[i]

\* C5: after a file of any number of blocks has been written and closed,
\* remove followed by a cold mount leaves num_free_blocks at its value before
\* the file was created, the name not existing, and every block that belonged
\* to the file UNALLOCATED.
C5_DeleteReclamation ==
    (AfterRemove /\ hist.rm.halt # "off")
        => /\ fs.num_free_blocks = hist.nfree0
           /\ ~flogfs_check_exists(Machine(BigFuel, 0, "benign"), "a").ret
           /\ \A b \in hist.rm.blocks :
                 flash[b][FLOG_INIT_SECTOR].type = FLOG_BLOCK_TYPE_UNALLOCATED

\* C6: when power was lost in remove after the inode invalidation was
\* committed, the next mount frees every remaining block of the file: no
\* block on the media carries the deleted file's id.
C6_InterruptedDeletion ==
    (/\ AfterRemove /\ hist.rm.halt = "off"
     /\ ~flogfs_check_exists(Machine(BigFuel, 0, "benign"), "a").ret)
        => BlocksOf(flash, hist.rm.id) = {}

(***************************************************************************)
(* Several files created, closed and removed, with power lost inside       *)
(* open_write and power cycles followed by a mount from the media.         *)
(***************************************************************************)
MaxOpsF == 10
MaxFuelF == 3
FuelsF == (1 .. MaxFuelF) \cup {BigFuel}

NextF ==
    \/ Len(hist.trace) = 0 /\ Format(BigFuel)
    \/ hist.last.op \in {"format", "power"} /\ Mount(BigFuel, "benign")
    \/ Len(hist.trace) < MaxOpsF /\ fs.state = "MOUNTED"
       /\ \E name \in Names, f \in FuelsF, oob \in OobBits :
             OpenWrite("w1", name, f, oob, "benign")
    \/ Len(hist.trace) < MaxOpsF /\ CloseWrite("w1", BigFuel, 1, "benign")
    \/ Len(hist.trace) < MaxOpsF /\ fs.state = "MOUNTED" /\ hist.wname["w1"] = NULL
       /\ \E name \in hist.live : Remove(name, BigFuel, "benign")
    \/ Len(hist.trace) \in 2 .. MaxOpsF - 2 /\ hist.last.op # "power" /\ PowerCycle

SpecF == Init /\ [][NextF]_vars

AllocationStamps(fl) ==
    { InodeAllocOf(fl[b][s].b).timestamp :
        <<b, s>> \in { <<b, s>> \in Blocks \X Sectors :
            /\ fl[b][FLOG_INIT_SECTOR].type = FLOG_BLOCK_TYPE_INODE
            /\ s >= FLOG_INODE_FIRST_ENTRY_SECTOR
            /\ (s - FLOG_INODE_FIRST_ENTRY_SECTOR) % 2 = 0
            /\ InodeAllocOf(fl[b][s].b).file_id # FLOG_FILE_ID_INVALID } }
    \cup
    { TailOf(fl[b][FLOG_TAIL_SECTOR].b).timestamp :
        b \in { b \in Blocks :
            /\ fl[b][FLOG_INIT_SECTOR].type
                  \in {FLOG_BLOCK_TYPE_INODE, FLOG_BLOCK_TYPE_FILE}
            /\ TailOf(fl[b][FLOG_TAIL_SECTOR].b).timestamp # FLOG_TIMESTAMP_INVALID } }

\* C8: after every successful mount, t is at least the largest allocation
\* timestamp present on the media, so that the next allocation is stamped
\* later than every earlier one.
C8_MountRestoresT ==
    (hist.last.op = "mount" /\ hist.last.ok)
        => \A ts \in AllocationStamps(flash) : fs.t >= ts

(***************************************************************************)
(* Files with short names and with a name of FLOG_MAX_FNAME_LEN characters *)
(* or more created, closed and removed.  The strcpy of a name that does    *)
(* not fit the entry's filename field either goes unnoticed or faults.     *)
(***************************************************************************)
MaxOpsN == 8
NamesN == {"a", "b", LongName}
UbOutcomes == {"benign", "trap"}

NextN ==
    \/ Len(hist.trace) = 0 /\ Format(BigFuel)
    \/ hist.last.op = "format" /\ Mount(BigFuel, "benign")
    \/ Len(hist.trace) < MaxOpsN /\ fs.state = "MOUNTED"
       /\ \E name \in NamesN, ub \in UbOutcomes : OpenWrite("w1", name, BigFuel, 1, ub)
    \/ Len(hist.trace) < MaxOpsN /\ CloseWrite("w1", BigFuel, 1, "benign")
    \/ Len(hist.trace) < MaxOpsN /\ fs.state = "MOUNTED" /\ hist.wname["w1"] = NULL
       /\ \E name \in NamesN : Remove(name, BigFuel, "benign")

SpecN == Init /\ [][NextN]_vars

\* the inode entries of the media fl that hold a file which is not deleted:
\* the <<block, sector>> of their allocation sectors
LiveEntries(fl) ==
    { e \in Blocks \X Sectors :
        /\ fl[e[1]][FLOG_INIT_SECTOR].type = FLOG_BLOCK_TYPE_INODE
        /\ e[2] >= FLOG_INODE_FIRST_ENTRY_SECTOR
        /\ (e[2] - FLOG_INODE_FIRST_ENTRY_SECTOR) % 2 = 0
        /\ InodeAllocOf(fl[e[1]][e[2]].b).file_id # FLOG_FILE_ID_INVALID
        /\ InodeInvalOf(fl[e[1]][e[2] + 1].b).timestamp = FLOG_TIMESTAMP_INVALID }

\* C9: at most one inode entry per stored filename has an invalidation
\* timestamp that is INVALID.
C9_OneLiveEntryPerName ==
    \A e1, e2 \in LiveEntries(flash) :
        flash[e1[1]][e1[2]].name = flash[e2[1]][e2[2]].name => e1 = e2

\* the free pool of the mounted filesystem: the blocks whose bit of
\* free_block_bitmap is set and the blocks queued in prealloc
FreePool ==
    { b \in Blocks : fs.free_block_bitmap[b] = 1 }
    \cup { fs.prealloc.blocks[i].block : i \in 0 .. fs.prealloc.n - 1 }

\* the blocks of the media fl that are part of the inode chain or of a file
Chained(fl) ==
    { b \in Blocks : fl[b][FLOG_INIT_SECTOR].type
                        \in {FLOG_BLOCK_TYPE_INODE, FLOG_BLOCK_TYPE_FILE} }

\* C10: on a mounted filesystem no good block is at once in the free pool
\* and part of the inode chain or of a file's chain: no block of the free
\* pool has been programmed through a write handle.
C10_BlockExclusivity ==
    (power = "run" /\ fs.state = "MOUNTED")
        => (FreePool \ bad) \cap Chained(flash) = {}

\* the blocks of the inode chain of the media fl from block b on, at most n
RECURSIVE InodeChain(_, _, _)
InodeChain(fl, b, n) ==
    IF n = 0 \/ b \notin Blocks
          \/ fl[b][FLOG_INIT_SECTOR].type # FLOG_BLOCK_TYPE_INODE
    THEN <<>>
    ELSE <<b>> \o InodeChain(fl, TailOf(fl[b][FLOG_TAIL_SECTOR].b).next_block, n - 1)

\* the entry sectors of an inode block, in order
EntrySectors ==
    [k \in 1 .. (FS_SECTORS_PER_BLOCK - FLOG_INODE_FIRST_ENTRY_SECTOR) \div 2 |->
        FLOG_INODE_FIRST_ENTRY_SECTOR + 2 * (k - 1)]

\* the stored names of the live entries of block b, from entry k on
RECURSIVE LiveNamesOfBlock(_, _, _)
LiveNamesOfBlock(fl, b, k) ==
    IF k > Len(EntrySectors) THEN <<>>
    ELSE (IF <<b, EntrySectors[k]>> \in LiveEntries(fl)
          THEN <<fl[b][EntrySectors[k]].name>> ELSE <<>>)
         \o LiveNamesOfBlock(fl, b, k + 1)

\* the stored names of the live entries of the blocks of chain, in order
RECURSIVE LiveNamesOfChain(_, _)
LiveNamesOfChain(fl, chain) ==
    IF chain = <<>> THEN <<>>
    ELSE LiveNamesOfBlock(fl, Head(chain), 1) \o LiveNamesOfChain(fl, Tail(chain))

\* C11: after completed operations on a mounted filesystem, a full listing
\* (start_ls, ls_iterate until it returns 0) ends and has returned the names
\* of the live inode entries, each once, in inode-position order: the names
\* that were created and not removed.
C11_ListsLiveNames ==
    (power = "run" /\ fs.state = "MOUNTED" /\ AllOk)
        => \E ls \in {ListFiles(Machine(BigFuel, 0, "benign"))} :
              /\ ls.halt = "run"
              /\ ls.ret = LiveNamesOfChain(flash, InodeChain(flash, fs.inode0, FS_NUM_BLOCKS))
              /\ {ls.ret[i] : i \in 1 .. Len(ls.ret)} = hist.live
              /\ Len(ls.ret) = Cardinality(hist.live)

\* the blocks whose bit is set in the free-block bitmap
FreeInBitmap == { b \in Blocks : fs.free_block_bitmap[b] = 1 }
\* the blocks held in the preallocation list
Preallocated == { fs.prealloc.blocks[i].block : i \in 0 .. fs.prealloc.n - 1 }

\* the sets of blocks that can be meant by "the blocks that are free": the
\* blocks that are UNALLOCATED on the media, the blocks of the free bitmap,
\* and either of them with or without the preallocated blocks
FreeReadings ==
    { FreeOnMedia(flash), FreeOnMedia(flash) \ Preallocated,
      FreeInBitmap, FreeInBitmap \cup Preallocated, FreeInBitmap \ Preallocated }

\* C12: after every completed public operation on a mounted filesystem
\* free_block_sum is the sum of the stat-record ages of the free blocks.
C12_FreeBlockSum ==
    (power = "run" /\ fs.state = "MOUNTED" /\ AllOk)
        => \E S \in FreeReadings : fs.free_block_sum = SumOfAges(flash, S)

(***************************************************************************)
(* Files written until the media is full, and written or created after     *)
(* that.  A read of the free bitmap past the end of the array yields       *)
(* either bit value.                                                       *)
(***************************************************************************)
MaxOpsM == 7
FillM == 1500
\* fourteen blocks of payload
NearM == 14 * BlockPayload
LensM == {3, 20, NearM, FillM}
NamesM == {"a", "b"}

NextM ==
    \/ Len(hist.trace) = 0 /\ Format(BigFuel)
    \/ hist.last.op = "format" /\ Mount(BigFuel, "benign")
    \/ Len(hist.trace) \in 2 .. MaxOpsM - 1
       /\ \E name \in NamesM, oob \in OobBits :
             OpenWrite("w1", name, BigFuel, oob, "benign")
    \/ Len(hist.trace) < MaxOpsM
       /\ \E n \in LensM, oob \in OobBits : Write("w1", n, BigFuel, oob, "benign")
    \/ Len(hist.trace) < MaxOpsM
       /\ \E oob \in OobBits : CloseWrite("w1", BigFuel, oob, "benign")

SpecM == Init /\ [][NextM]_vars

\* a write on the handle has stopped short and no block is counted as free
Stopped(h) ==
    /\ power = "run" /\ hist.wname[h] # NULL
    /\ fs.num_free_blocks = 0
    /\ \E i \in 1 .. Len(hist.trace) : hist.trace[i] = "write" /\ ~hist.oks[i]

\* the position of a write handle
Position(f) ==
    [block |-> f.block, sector |-> f.sector, offset |-> f.offset,
     bytes_in_block |-> f.bytes_in_block, write_head |-> f.write_head]

\* C13: once a write has stopped for lack of a free block with
\* num_free_blocks = 0, every further write on the handle returns 0, programs
\* nothing on flash and leaves the handle's position unchanged.
C13_FullMediaWrites ==
    [][(Stopped("w1") /\ hist'.last.op = "write")
        => /\ hist'.wlen = hist.wlen
           /\ flash' = flash
           /\ Position(wf'["w1"]) = Position(wf["w1"])]_vars

\* an open_write of a name that has no live inode entry has just failed
\* with the processor still running
FailedCreate ==
    /\ hist'.last.op = "open_write" /\ ~hist'.last.ok /\ power' = "run"
    /\ fs.state = "MOUNTED"
    /\ IsNew(hist'.last.arg.name)

\* C14: an open_write of a new file that fails because no block or inode
\* slot could be allocated leaves no durable change: the media (inode chain,
\* tail links, the other files' data), the free-block accounting and
\* max_file_id are as they were before the call.
C14_FailedCreateLeavesNothing ==
    [][FailedCreate
        => /\ flash' = flash
           /\ fs'.num_free_blocks = fs.num_free_blocks
           /\ fs'.free_block_bitmap = fs.free_block_bitmap
           /\ fs'.free_block_sum = fs.free_block_sum
           /\ fs'.max_file_id = fs.max_file_id]_vars

(***************************************************************************)
(* Two write handles open at once on two files, closed in either order,    *)
(* and mount called again while the filesystem is mounted.                 *)
(***************************************************************************)
MaxOpsL == 8
LensL == {3, 20}

NextL ==
    \/ Len(hist.trace) = 0 /\ Format(BigFuel)
    \/ hist.last.op = "format" /\ Mount(BigFuel, "benign")
    \/ Len(hist.trace) \in 2 .. MaxOpsL - 1
       /\ \E h \in WriteHandles, name \in NamesM :
             /\ \A h2 \in WriteHandles : hist.wname[h2] # name
             /\ OpenWrite(h, name, BigFuel, 1, "benign")
    \/ Len(hist.trace) < MaxOpsL
       /\ \E h \in WriteHandles, n \in LensL : Write(h, n, BigFuel, 1, "benign")
    \/ Len(hist.trace) < MaxOpsL
       /\ \E h \in WriteHandles : CloseWrite(h, BigFuel, 1, "benign")
    \/ Len(hist.trace) \in 2 .. MaxOpsL - 1 /\ fs.state = "MOUNTED"
       /\ Mount(BigFuel, "benign")

SpecL == Init /\ [][NextL]_vars

\* the handles of the list that starts at it, in order, at most n of them
RECURSIVE ListFrom(_, _, _)
ListFrom(files, it, n) ==
    IF it = NULL \/ n = 0 THEN <<>>
    ELSE <<it>> \o ListFrom(files, files[it].next, n - 1)

\* the list of open write files
WriteList == ListFrom(wf, fs.write_head, Cardinality(WriteHandles) + 1)

\* the sequence s without the element x
Without(s, x) == SelectSeq(s, LAMBDA y : y # x)

\* C15: with several files open, closing a write handle that is in the list
\* of open files, at whatever place, returns success, takes exactly that
\* handle out of the list and leaves the others linked.
C15_CloseAnyHandle ==
    [][\A h \in WriteHandles :
        (/\ hist'.last.op = "close_write" /\ power = "run"
         /\ hist'.last.arg.h = h
         /\ Len(WriteList) >= 2
         /\ \E i \in 1 .. Len(WriteList) : WriteList[i] = h)
        => /\ hist'.last.ok
           /\ WriteList' = Without(WriteList, h)]_vars

\* the sectors of a file block that hold data, other than the tail sector
DataSectors == Sectors \ {FLOG_TAIL_SECTOR, FLOG_BLK_STAT_SECTOR}

RECURSIVE SumOfNbytes(_, _, _)
SumOfNbytes(fl, b, S) ==
    IF S = {} THEN 0
    ELSE Val({ (IF fl[b][x].w = FLOG_SECTOR_NBYTES_INVALID THEN 0 ELSE fl[b][x].w)
                  + SumOfNbytes(fl, b, S \ {x})
             : x \in {CHOOSE y \in S : TRUE} })

\* the number of bytes the media records for the chain of file blocks that
\* starts at block b: bytes_in_block of every block whose tail sector is
\* committed, and the byte counts of the written sectors of the last block
RECURSIVE MediaLength(_, _, _)
MediaLength(fl, b, n) ==
    IF n = 0 \/ b \notin Blocks THEN 0
    ELSE IF TailOf(fl[b][FLOG_TAIL_SECTOR].b).timestamp # FLOG_TIMESTAMP_INVALID
    THEN TailOf(fl[b][FLOG_TAIL_SECTOR].b).bytes_in_block
            + MediaLength(fl, TailOf(fl[b][FLOG_TAIL_SECTOR].b).next_block, n - 1)
    ELSE SumOfNbytes(fl, b, DataSectors)

\* C16: after open_write on an existing file write_head is the file's length
\* (the number of bytes a reader obtains reading it from the start to the
\* end, or the number of bytes the media records for it), and the handle
\* points at an erased sector of the file's last block that follows the
\* block's written sectors: at the init sector if that has not been written.
C16_OpenWriteSeeksToEnd ==
    [][\A h \in WriteHandles, name \in NamesM :
        (/\ hist'.last.op = "open_write" /\ hist'.last.ok
         /\ hist'.last.arg.h = h /\ hist'.last.arg.name = name
         /\ power = "run" /\ name \in hist.live)
        => /\ wf'[h].write_head
                 \in { Len(FileView(Machine(BigFuel, 0, "benign"), name).data),
                       MediaLength(flash,
                           flog_find_file(Machine(BigFuel, 0, "benign"), name)
                               .ret.first_block, FS_NUM_BLOCKS) }
           /\ flash'[wf'[h].block][wf'[h].sector].w = FLOG_SECTOR_NBYTES_INVALID
           /\ wf'[h].sector # FLOG_INIT_SECTOR
                 => flash'[wf'[h].block][FLOG_INIT_SECTOR].w
                       # FLOG_SECTOR_NBYTES_INVALID]_vars

\* C17: open_write of a filename of FLOG_MAX_FNAME_LEN bytes or more returns
\* failure, creates no inode entry (the media is unchanged) and writes
\* nothing outside the filename field (the processor carries on); open_read
\* of such a name returns failure.
C17_LongNamesRejected ==
    [][(/\ hist'.last.op = "open_write" /\ hist'.last.arg.name = LongName
        /\ power = "run" /\ fs.state = "MOUNTED")
        => /\ ~hist'.last.ok
           /\ power' = "run"
           /\ flash' = flash
           /\ ~Ok(flogfs_open_read(Machine(BigFuel, 0, "benign"), "r1", LongName))]_vars

\* the in-RAM accounting of the filesystem
Accounting(f) ==
    [num_free_blocks |-> f.num_free_blocks, free_block_bitmap |-> f.free_block_bitmap,
     free_block_sum |-> f.free_block_sum, mean_free_age |-> f.mean_free_age,
     t |-> f.t, max_file_id |-> f.max_file_id, prealloc |-> f.prealloc,
     write_head |-> f.write_head, read_head |-> f.read_head]

\* C18: remove of a name that has no live inode entry (never created, or
\* already removed) is reported as success and changes nothing on the media
\* or in RAM; open_read of such a name is reported as failure.
C18_RemoveIsIdempotent ==
    [][\A name \in NamesN :
        (/\ hist'.last.op = "rm" /\ hist'.last.arg.name = name
         /\ power = "run" /\ fs.state = "MOUNTED" /\ IsNew(name))
        => /\ hist'.last.ok
           /\ flash' = flash
           /\ Accounting(fs') = Accounting(fs)
           /\ ~Ok(flogfs_open_read(Machine(BigFuel, 0, "benign"), "r1", name))]_vars

\* C19: mount of a filesystem that is MOUNTED returns success, makes no
\* flash access (the media and the driver's page register are as before)
\* and leaves the in-RAM state and the open files as they were.
C19_MountWhenMounted ==
    [][(hist'.last.op = "mount" /\ power = "run" /\ fs.state = "MOUNTED")
        => /\ hist'.last.ok /\ power' = "run"
           /\ flash' = flash /\ drv' = drv
           /\ fs' = fs /\ wf' = wf /\ rf' = rf]_vars

\* mount has returned with a file still open for writing and blocks in use
C19_Witness ==
    /\ hist.last.op = "mount" /\ hist.last.ok
    /\ fs.write_head # NULL /\ Len(WriteList) = 2
    /\ fs.max_file_id = 2 /\ fs.num_free_blocks < FS_NUM_BLOCKS - 1

(***************************************************************************)
(* Two threads: one writes a file a sector at a time and can be preempted  *)
(* between filling the page register and flash_commit; the other lists the *)
(* files.  fs_lock and flash_lock are mutexes: a thread that takes one     *)
(* waits until it is free.                                                 *)
(***************************************************************************)
MaxOpsT == 9

\* the bytes of a write that fills the handle's current sector
SectorFill(h) == Data(hist.wlen[hist.wname[h]], wf[h].sector_remaining_bytes)

\* flogfs_write of SectorFill up to the last flash_write_spare
WriteStage(h) ==
    /\ power = "run" /\ thr.w = "idle" /\ hist.wname[h] # NULL
    /\ fs.lock = 0 /\ fs.flash_lock = 0
    /\ wf[h].sector # FLOG_TAIL_SECTOR
    /\ \E m \in {commit_data_stage(
                    flog_lock_allocate(flash_lock(flog_lock_fs(
                        Machine(BigFuel, 0, "benign")))), h, SectorFill(h))} :
          Settle(m, hist) /\ thr' = [thr EXCEPT !.w = "staged"]

\* the rest of it: flash_commit, the handle moved on, the locks released
WriteFinish(h) ==
    /\ power = "run" /\ thr.w = "staged"
    /\ \E m \in {commit_data_finish(Machine(BigFuel, 0, "benign"), h, SectorFill(h))},
          n \in {wf[h].sector_remaining_bytes} :
          /\ Settle(Ret(flog_unlock_fs(flash_unlock(m)), n),
                    [DidTo("write", [h |-> h, name |-> hist.wname[h], n |-> n],
                           m.halt = "run")
                        EXCEPT !.wlen[hist.wname[h]] = @ + n])
          /\ thr' = [thr EXCEPT !.w = "idle"]

LsStart ==
    /\ power = "run" /\ thr.l = "idle"
    /\ \E m \in {flogfs_start_ls(Machine(BigFuel, 0, "benign"))} :
          /\ Settle(m, Did("ls_start", TRUE))
          /\ thr' = [thr EXCEPT !.l = "listing", !.iter = m.ret, !.names = <<>>]

LsIterate ==
    /\ power = "run" /\ thr.l = "listing"
    /\ \E m \in {flogfs_ls_iterate(Machine(BigFuel, 0, "benign"), thr.iter)} :
          /\ Settle(m, Did("ls_iterate", m.halt = "run" /\ m.ret.found))
          /\ thr' = IF m.halt # "run" THEN NoThreads
                    ELSE IF m.ret.found
                    THEN [thr EXCEPT !.iter = m.ret.iter,
                                     !.names = Append(@, m.ret.name)]
                    ELSE [thr EXCEPT !.l = "ended"]

\* flogfs_stop_ls does nothing
LsStop ==
    /\ power = "run" /\ thr.l = "ended"
    /\ Settle(Machine(BigFuel, 0, "benign"), Did("ls_stop", TRUE))
    /\ thr' = [thr EXCEPT !.l = "idle", !.iter = NULL]

NextT ==
    \/ Len(hist.trace) = 0 /\ Format(BigFuel)
    \/ hist.last.op = "format" /\ Mount(BigFuel, "benign")
    \/ hist.last.op \in {"mount", "close_write"} /\ Len(hist.trace) < 5
       /\ \E name \in NamesM : OpenWrite("w1", name, BigFuel, 1, "benign")
    \/ Len(hist.trace) < MaxOpsT /\ WriteStage("w1")
    \/ thr.w = "staged" /\ WriteFinish("w1")
    \/ Len(hist.trace) < MaxOpsT /\ thr.w = "idle" /\ thr.l = "idle"
       /\ hist.last.op = "open_write" /\ CloseWrite("w1", BigFuel, 1, "benign")
    \/ Len(hist.trace) < MaxOpsT /\ fs.state = "MOUNTED" /\ LsStart
    \/ Len(hist.trace) < MaxOpsT /\ LsIterate
    \/ thr.l = "ended" /\ LsStop

SpecT == Init /\ [][NextT]_vars

\* C20: the flash accesses of two public operations called from different
\* threads never interleave: while a write has filled the page register and
\* not yet committed it, the register still holds the page and the sector
\* the write has filled (no ls_iterate has opened another page in between),
\* and the writer holds the fs lock and the flash lock.
C20_FlashAccessesSerialized ==
    (power = "run" /\ thr.w = "staged")
        => /\ fs.lock = 1 /\ fs.flash_lock = 1
           /\ drv.block = wf["w1"].block
           /\ drv.page = PageOf(wf["w1"].sector)
           /\ drv.secs[InPage(wf["w1"].sector)].w # FLOG_SECTOR_NBYTES_INVALID

(***************************************************************************)
(* Two callers of flogfs_format and flogfs_mount.  A caller takes one      *)
(* mutex at a time and waits while another caller holds it; once it holds  *)
(* the locks of its operation, the rest of the operation runs without      *)
(* interference, so it is one step.                                        *)
(***************************************************************************)
Callers == {"t1", "t2"}
MaxOpsK == 5

InitK ==
    /\ flash = ErasedFlash
    /\ drv = ClosedDrv
    /\ fs = Boot(ErasedFlash, {}).fs
    /\ wf = NoWriteFiles
    /\ rf = NoReadFiles
    /\ power = "run"
    /\ bad = {}
    /\ hist = NoHist
    /\ thr = [t \in Callers |-> "idle"]

\* the machine of a caller that holds the locks of its operation, at the
\* operation's first statement
Entered == [Machine(BigFuel, 0, "benign") EXCEPT !.fs.lock = 0, !.fs.flash_lock = 0]

\* flogfs_format: flash_lock()
FormatFlashLock(t) ==
    /\ power = "run" /\ thr[t] = "idle" /\ fs.flash_lock = 0
    /\ Settle(flash_lock(Machine(BigFuel, 0, "benign")), hist)
    /\ thr' = [thr EXCEPT ![t] = "format_flash"]

\* flogfs_format: flog_lock_fs()
FormatFsLock(t) ==
    /\ power = "run" /\ thr[t] = "format_flash" /\ fs.lock = 0
    /\ Settle(flog_lock_fs(Machine(BigFuel, 0, "benign")), hist)
    /\ thr' = [thr EXCEPT ![t] = "format_fs"]

\* flogfs_format, the locks held
FormatBody(t) ==
    /\ power = "run" /\ thr[t] = "format_fs"
    /\ \E m \in {flogfs_format(Entered)} :
          /\ Settle(m, [Did("format", Ok(m)) EXCEPT
                           !.live = {}, !.wlen = [n \in Names |-> 0], !.ids = <<>>])
          /\ thr' = [thr EXCEPT ![t] = "idle"]

\* flogfs_mount: flog_lock_fs()
MountFsLock(t) ==
    /\ power = "run" /\ thr[t] = "idle" /\ fs.lock = 0
    /\ Settle(flog_lock_fs(Machine(BigFuel, 0, "benign")), hist)
    /\ thr' = [thr EXCEPT ![t] = "mount_fs"]

\* flogfs_mount: flash_lock(), unless the filesystem is mounted
MountFlashLock(t) ==
    /\ power = "run" /\ thr[t] = "mount_fs" /\ fs.state # "MOUNTED"
    /\ fs.flash_lock = 0
    /\ Settle(flash_lock(Machine(BigFuel, 0, "benign")), hist)
    /\ thr' = [thr EXCEPT ![t] = "mount_flash"]

\* flogfs_mount, the locks held
MountBody(t) ==
    /\ power = "run"
    /\ \/ thr[t] = "mount_flash"
       \/ thr[t] = "mount_fs" /\ fs.state = "MOUNTED"
    /\ \E m \in {flogfs_mount(Entered)} :
          /\ Settle(m, Did("mount", Ok(m)))
          /\ thr' = [thr EXCEPT ![t] = "idle"]

NextK ==
    \/ Len(hist.trace) < MaxOpsK /\ \E t \in Callers : FormatFlashLock(t)
    \/ \E t \in Callers : thr[t] = "format_flash" /\ FormatFsLock(t)
    \/ \E t \in Callers : thr[t] = "format_fs" /\ FormatBody(t)
    \/ Len(hist.trace) < MaxOpsK /\ \E t \in Callers : MountFsLock(t)
    \/ \E t \in Callers : thr[t] = "mount_fs" /\ MountFlashLock(t)
    \/ \E t \in Callers : thr[t] # "idle" /\ MountBody(t)

SpecK == InitK /\ [][NextK]_vars

\* the mutex a caller is about to take
Wants(t) ==
    IF thr[t] = "format_flash" THEN {"lock"}
    ELSE IF thr[t] = "mount_fs" /\ fs.state # "MOUNTED" THEN {"flash_lock"}
    ELSE {}

\* the mutexes a caller holds
Holds(t) ==
    IF thr[t] = "format_flash" THEN {"flash_lock"}
    ELSE IF thr[t] = "mount_fs" THEN {"lock"}
    ELSE IF thr[t] \in {"format_fs", "mount_flash"} THEN {"lock", "flash_lock"}
    ELSE {}

\* C21: two callers of public operations (format and mount among them)
\* never wait for each other: there is no state in which each of two
\* callers is about to take a mutex that the other one holds.
C21_NoLockCycle ==
    \A t, u \in Callers :
        ~(t # u /\ Wants(t) \subseteq Holds(u) /\ Wants(u) \subseteq Holds(t)
               /\ Wants(t) # {} /\ Wants(u) # {})

(***************************************************************************)
(* Media with bad blocks: the driver's flash_block_is_bad answers yes for  *)
(* the blocks of the set bad, which are in the erased state when the       *)
(* device is first used.                                                   *)
(***************************************************************************)
MaxOpsB == 6
BadLayouts == {{0}, {1}, {0, 1}, {3}}
LensB == {3, 20}

InitB ==
    /\ flash = ErasedFlash
    /\ drv = ClosedDrv
    /\ bad \in BadLayouts
    /\ fs = Boot(ErasedFlash, bad).fs
    /\ wf = NoWriteFiles
    /\ rf = NoReadFiles
    /\ power = "run"
    /\ hist = NoHist
    /\ thr = NoThreads

NextB ==
    \/ Len(hist.trace) = 0 /\ Format(BigFuel)
    \/ hist.last.op = "format" /\ Mount(BigFuel, "benign")
    \/ Len(hist.trace) \in 2 .. MaxOpsB - 1
       /\ \E name \in NamesM : OpenWrite("w1", name, BigFuel, 1, "benign")
    \/ Len(hist.trace) \in 2 .. MaxOpsB - 1
       /\ \E n \in LensB : Write("w1", n, BigFuel, 1, "benign")
    \/ Len(hist.trace) \in 2 .. MaxOpsB - 1 /\ CloseWrite("w1", BigFuel, 1, "benign")
    \/ Len(hist.trace) \in 2 .. MaxOpsB - 1
       /\ \E name \in NamesM : Remove(name, BigFuel, "benign")

SpecB == InitB /\ [][NextB]_vars

\* C22: no operation erases or programs a block that the driver reports as
\* bad: every sector and spare of every bad block stays as it was when the
\* device was first used (erased).
C22_BadBlocksUntouched == \A b \in bad : flash[b] = ErasedBlock

\* the blocks whose init sector has been committed as the first sector of a
\* FILE block
FileBlocks ==
    { b \in Blocks : flash[b][FLOG_INIT_SECTOR].type = FLOG_BLOCK_TYPE_FILE }

\* C23: every block typed FILE carries in its init sector an age that is one
\* more than the age of its stat record (the age it had while it was free),
\* whether it is the first block of a new file or a successor block that
\* was allocated when the tail sector of its predecessor was committed.
C23_InitAgeIsStatAgePlusOne ==
    \A b \in FileBlocks :
        FileInitOf(flash[b][FLOG_INIT_SECTOR].b).age
            = 1 + StatOf(flash[b][FLOG_BLK_STAT_SECTOR].b).age

\* C24: whenever a block is free (erased, with no init sector, and claimed
\* by no open file), flog_allocate_block(0) returns a block that is free,
\* whatever the position of allocate_head, the prealloc list and the ages.
C24_AllocateReturnsFreeBlock ==
    (/\ power = "run" /\ fs.state = "MOUNTED"
     /\ \A h \in WriteHandles : hist.wname[h] = NULL
     /\ FreeOnMedia(flash) # {})
        => \A oob \in OobBits :
              flog_allocate_block(Machine(BigFuel, oob, "benign"), 0).ret.block
                  \in FreeOnMedia(flash)

\* C25: after every completed operation on a mounted filesystem
\* num_free_blocks is the number of set bits of free_block_bitmap: an
\* allocation takes one from the counter and clears the bit of the block it
\* returns.
C25_FreeCountIsBitmapCount ==
    (power = "run" /\ fs.state = "MOUNTED")
        => fs.num_free_blocks = Cardinality(FreeInBitmap)

(***************************************************************************)
(* One file written until the free blocks run out, on a processor where a  *)
(* division by zero either yields a value or traps.                        *)
(***************************************************************************)
MaxOpsZ == 6

NextZ ==
    \/ Len(hist.trace) = 0 /\ Format(BigFuel)
    \/ hist.last.op = "format" /\ \E ub \in UbOutcomes : Mount(BigFuel, ub)
    \/ Len(hist.trace) \in 2 .. MaxOpsZ - 1
       /\ \E name \in NamesM, ub \in UbOutcomes :
             OpenWrite("w1", name, BigFuel, 1, ub)
    \/ Len(hist.trace) < MaxOpsZ
       /\ \E n \in LensM, ub \in UbOutcomes : Write("w1", n, BigFuel, 1, ub)
    \/ Len(hist.trace) < MaxOpsZ /\ CloseWrite("w1", BigFuel, 1, "benign")

SpecZ == Init /\ [][NextZ]_vars

\* C26: no operation divides by num_free_blocks while it is 0 (the
\* processor never takes the division trap), also when the allocation of
\* the last free block brings the counter to 0.
C26_NoDivisionByZero == power # "fault"

\* C28: no operation takes a filesystem mutex that its own thread already
\* holds: flog_flush_dirty_block, which runs under the allocate lock, never
\* reaches flog_lock_allocate, so creating a second file while the first
\* block of another new file is still dirty does not stop the caller.
C28_NoSelfDeadlock == power # "deadlock"

\* C27: whenever the dirty_block slot holds a block, the file it names is a
\* write handle that is open: the slot never refers to a handle that has
\* been closed.
C27_DirtyBlockHolderIsOpen ==
    (power = "run" /\ fs.state = "MOUNTED"
        /\ fs.dirty_block.block # FLOG_BLOCK_IDX_INVALID)
        => /\ fs.dirty_block.file # NULL
           /\ hist.wname[fs.dirty_block.file] # NULL

\* C29: every flash commit clears the page_open flag of the page-cache
\* shim, so that the next flog_open_page of the same page is not taken as a
\* hit on a page that has been committed since it was opened: the step of a
\* write that commits the sector it has staged leaves the flag clear.
C29_CommitClosesShimPage ==
    [][(thr.w = "staged" /\ thr'.w = "idle" /\ power' = "run")
          => fs'.cache_status.page_open = 0]_vars

(***************************************************************************)
(* flog_increment_sector applied from sector 0 on, for the geometries of   *)
(* at least MinPerPage sectors per page and MinPages pages per block       *)
(* (the tail sector and the stat sector are the last two sectors of the    *)
(* first page, the inode entries start in the second page).                *)
(***************************************************************************)
MinPerPage == 3
MaxPerPage == 6
MinPages == 2
MaxPages == 4

\* the walk of one geometry: the sector it stands at and the sectors it has
\* produced so far
Walk(spp, ppb) == [spp |-> spp, ppb |-> ppb, sector |-> 0, seen |-> <<0>>]

InitS ==
    /\ flash = ErasedFlash
    /\ drv = ClosedDrv
    /\ fs = Boot(ErasedFlash, {}).fs
    /\ wf = NoWriteFiles
    /\ rf = NoReadFiles
    /\ power = "run"
    /\ bad = {}
    /\ hist = NoHist
    /\ thr \in { Walk(spp, ppb) : spp \in MinPerPage .. MaxPerPage,
                                  ppb \in MinPages .. MaxPages }

\* FLOG_FILE_TAIL_SECTOR and FLOG_FILE_INVALIDATION_SECTOR of a geometry
TailSector(spp) == spp - 2
StatSector(spp) == spp - 1

Advance ==
    /\ \E next \in {increment_sector(TailSector(thr.spp), thr.spp,
                                     thr.spp * thr.ppb, thr.sector)} :
          thr' = [thr EXCEPT !.sector = next, !.seen = Append(@, next)]
    /\ UNCHANGED <<flash, drv, fs, wf, rf, power, bad, hist>>

NextS ==
    \/ thr.sector # TailSector(thr.spp) /\ Len(thr.seen) < thr.spp * thr.ppb
       /\ Advance

SpecS == InitS /\ [][NextS]_vars

\* the sectors of a block in the order in which a file fills them: the
\* sectors before the tail sector, the sectors of the later pages, the tail
\* sector
FillOrder(spp, ppb) ==
    [i \in 1 .. spp * ppb - 1 |->
        IF i <= TailSector(spp) THEN i - 1
        ELSE IF i < spp * ppb - 1 THEN i + 1
        ELSE TailSector(spp)]

InodeRoots ==
    { b \in Blocks : /\ flash[b][FLOG_INIT_SECTOR].type = FLOG_BLOCK_TYPE_INODE
                     /\ flash[b][FLOG_INIT_SECTOR].w = 0 }

\* C31: on a mounted filesystem the root of the inode chain that find_file,
\* open_write, remove, exists and ls start from (flogfs.inode0) is the
\* block that format claimed as inode block 0, for every layout of bad
\* blocks.
C31_RootIsFormatsInode0 ==
    (power = "run" /\ fs.state = "MOUNTED") => fs.inode0 \in InodeRoots

(***************************************************************************)
(* Files created one after the other until the inode chain has three       *)
(* blocks (an inode block holds MaxInodeEntries entries).                  *)
(***************************************************************************)
MaxOpsI == 10
NamesI == {"a", "b", "c", "d"}

NextI ==
    \/ Len(hist.trace) = 0 /\ Format(BigFuel)
    \/ hist.last.op = "format" /\ Mount(BigFuel, "benign")
    \/ Len(hist.trace) \in 2 .. MaxOpsI - 1
       /\ \E name \in NamesI, oob \in OobBits :
             OpenWrite("w1", name, BigFuel, oob, "benign")
    \/ Len(hist.trace) \in 2 .. MaxOpsI - 1 /\ CloseWrite("w1", BigFuel, 1, "benign")

SpecI == Init /\ [][NextI]_vars

\* the inode chain on the media, from the root that format wrote
ChainI == InodeChain(flash, 0, FS_NUM_BLOCKS)

\* C32: along an inode chain of distinct blocks the blocks carry
\* inode_index 0, 1, 2, ... in order, however many blocks the chain has
\* grown to.
C32_InodeIndexCounts ==
    (/\ power = "run" /\ fs.state = "MOUNTED"
     /\ \A j, k \in 1 .. Len(ChainI) : ChainI[j] = ChainI[k] => j = k)
        => \A k \in 1 .. Len(ChainI) :
              flash[ChainI[k]][FLOG_INIT_SECTOR].w = k - 1

\* what flog_find_file finds for that name
Found(name) == flog_find_file(Machine(BigFuel, 0, "benign"), name)

\* the names that flog_find_file finds a file for
NamesFound ==
    { name \in NamesI : /\ Found(name).halt = "run"
                        /\ Found(name).ret.first_block # FLOG_BLOCK_IDX_INVALID }

\* flog_invalidate_chain on the chain of the file of that name, as
\* flogfs_rm calls it
InvalidateFileOf(name) ==
    Val({ flog_invalidate_chain(r, r.ret.first_block, r.ret.file_id)
        : r \in {Found(name)} })

\* C33: flog_invalidate_chain terminates on the chain of every file of the
\* filesystem (it stops at a block that is not a FILE block or that carries
\* another file_id), and on return the delete lock is free and
\* t_allocation_ceiling is INVALID.
C33_InvalidateChainTerminates ==
    (/\ power = "run" /\ fs.state = "MOUNTED"
     /\ \A h \in WriteHandles : hist.wname[h] = NULL)
        => \A name \in NamesFound :
              \A m \in {InvalidateFileOf(name)} :
                 /\ m.halt = "run"
                 /\ m.fs.delete_lock = 0
                 /\ m.fs.t_allocation_ceiling = FLOG_TIMESTAMP_INVALID

(***************************************************************************)
(* Mount after a power loss inside flog_inode_prepare_new.                 *)
(***************************************************************************)
\* the inode blocks whose committed tail names a block with an erased init spare
HalfExtended ==
    { b \in Blocks :
        /\ flash[b][FLOG_INIT_SECTOR].type = FLOG_BLOCK_TYPE_INODE
        /\ TailOf(flash[b][FLOG_TAIL_SECTOR].b).timestamp # FLOG_TIMESTAMP_INVALID
        /\ TailOf(flash[b][FLOG_TAIL_SECTOR].b).next_block \in Blocks
        /\ flash[TailOf(flash[b][FLOG_TAIL_SECTOR].b).next_block][FLOG_INIT_SECTOR].type
             = FLOG_BLOCK_TYPE_UNALLOCATED }

\* C34: a successful mount that finds an inode block whose tail sector is
\* committed while its successor's init sector and spare are still erased
\* leaves the successor typed INODE, with inode_index one more than the
\* predecessor's and previous naming the predecessor, and with its bit of
\* the free bitmap clear.
C34_MountCompletesInodeExtension ==
    [][ (/\ hist'.last.op = "mount" /\ hist'.last.ok
         /\ Len(hist'.trace) = Len(hist.trace) + 1
         /\ power' = "run")
            => \A b \in HalfExtended :
                  \A n \in {TailOf(flash[b][FLOG_TAIL_SECTOR].b).next_block} :
                     /\ flash'[n][FLOG_INIT_SECTOR].type = FLOG_BLOCK_TYPE_INODE
                     /\ flash'[n][FLOG_INIT_SECTOR].w
                          = flash[b][FLOG_INIT_SECTOR].w + 1
                     /\ Get16(flash'[n][FLOG_INIT_SECTOR].b, 4) = b
                     /\ fs'.free_block_bitmap[n] = 0 ]_vars

(***************************************************************************)
(* A removal seen statement by statement: the caller of flogfs_rm holds    *)
(* the filesystem lock from RmEnter to RmLeave, and a caller of any other  *)
(* operation waits in flog_lock_fs until the lock is free.                 *)
(***************************************************************************)
MaxOpsV == 8
LensV == {3, 100}
NoWalk == [pc |-> "idle", base |-> FLOG_BLOCK_IDX_INVALID,
           file_id |-> FLOG_FILE_ID_INVALID, num_freed |-> 0, name |-> NULL]

InitV ==
    /\ flash = ErasedFlash
    /\ drv = ClosedDrv
    /\ fs = Boot(ErasedFlash, {}).fs
    /\ wf = NoWriteFiles
    /\ rf = NoReadFiles
    /\ power = "run"
    /\ bad = {}
    /\ hist = NoHist
    /\ thr = NoWalk

\* flogfs_rm from its first statement to the store of the ceiling in
\* flog_invalidate_chain; a removal that fails returns at once
RmEnter(name) ==
    /\ power = "run"
    /\ \E p \in {rm_invalidate_entry(Machine(BigFuel, 0, "benign"), name)} :
          IF p.halt = "run" /\ p.ret.ok
          THEN /\ Settle(invalidate_begin(p), hist)
               /\ thr' = [pc |-> "invalidating", base |-> p.ret.first_block,
                          file_id |-> p.ret.file_id, num_freed |-> 0, name |-> name]
          ELSE Remove(name, BigFuel, "benign")

\* one pass of the loop of flog_invalidate_chain
InvalidatePass ==
    /\ power = "run"
    /\ \E s \in {invalidate_step([m |-> Machine(BigFuel, 0, "benign"),
                                  base |-> thr.base, file_id |-> thr.file_id,
                                  num_freed |-> thr.num_freed, done |-> FALSE])} :
          /\ Settle(s.m, hist)
          /\ thr' = IF s.m.halt # "run" THEN NoWalk
                    ELSE [thr EXCEPT !.pc = IF s.done THEN "done" ELSE @,
                                     !.base = s.base,
                                     !.num_freed = s.num_freed]

\* the label done of flog_invalidate_chain and the return of flogfs_rm
RmLeave ==
    /\ power = "run"
    /\ \E m \in {Ret(flog_unlock_fs(flash_unlock(
                        invalidate_done(Machine(BigFuel, 0, "benign"),
                                        thr.num_freed))), TRUE)} :
          /\ Settle(m, [DidTo("rm", [h |-> NULL, name |-> thr.name, n |-> 0], Ok(m))
                           EXCEPT !.live = @ \ {thr.name}])
          /\ thr' = NoWalk

NextV ==
    \/ Len(hist.trace) = 0 /\ Format(BigFuel)
    \/ hist.last.op = "format" /\ Mount(BigFuel, "benign")
    \/ Len(hist.trace) \in 2 .. MaxOpsV - 1 /\ fs.lock = 0
       /\ \E name \in Names, oob \in OobBits : OpenWrite("w1", name, BigFuel, oob, "benign")
    \/ Len(hist.trace) \in 2 .. MaxOpsV - 1 /\ fs.lock = 0
       /\ \E n \in LensV : Write("w1", n, BigFuel, 1, "benign")
    \/ Len(hist.trace) \in 2 .. MaxOpsV - 1 /\ fs.lock = 0
       /\ CloseWrite("w1", BigFuel, 1, "benign")
    \/ Len(hist.trace) \in 2 .. MaxOpsV - 1 /\ fs.lock = 0 /\ hist.wname["w1"] = NULL
       /\ \E name \in hist.live : RmEnter(name)
    \/ thr.pc = "invalidating" /\ InvalidatePass
    \/ thr.pc = "done" /\ RmLeave

SpecV == InitV /\ [][NextV]_vars

\* the timestamp in the init sector of block b of the media fl
InitStamp(fl, b) ==
    IF fl[b][FLOG_INIT_SECTOR].type = FLOG_BLOCK_TYPE_INODE
    THEN Get32(fl[b][FLOG_INIT_SECTOR].b, 0)
    ELSE FileInitOf(fl[b][FLOG_INIT_SECTOR].b).timestamp

\* the blocks a step allocates: unallocated before it, a file or an inode
\* block after it
Allocated ==
    { b \in Blocks :
        /\ flash[b][FLOG_INIT_SECTOR].type = FLOG_BLOCK_TYPE_UNALLOCATED
        /\ flash'[b][FLOG_INIT_SECTOR].type
             \in {FLOG_BLOCK_TYPE_FILE, FLOG_BLOCK_TYPE_INODE} }

MaxOpsA == 8
LensA == {3, 20, 88}
ChunksA == {10, ReadCap}

NextA ==
    \/ Len(hist.trace) = 0 /\ Format(BigFuel)
    \/ hist.last.op = "format" /\ Mount(BigFuel, "benign")
    \/ Len(hist.trace) = 2 /\ OpenWrite("w1", "a", BigFuel, 0, "benign")
    \/ Len(hist.trace) < MaxOpsA
       /\ \E n \in LensA, oob \in OobBits : Write("w1", n, BigFuel, oob, "benign")
    \/ Len(hist.trace) \in 3 .. MaxOpsA - 1 /\ OpenRead("r1", "a")
    \/ Len(hist.trace) < MaxOpsA
       /\ \E n \in ChunksA : Read("r1", n)

SpecA == Init /\ [][NextA]_vars

\* C36: while one handle appends to a file, the bytes another handle has
\* read from it are the first bytes that were written, in order: no byte
\* of an erased sector, none of a block that is not the file's, none
\* skipped.
C36_ReadWhileAppending ==
    (power = "run" /\ hist.rname["r1"] = "a" /\ hist.wname["w1"] = "a")
        => IsPrefix(hist.rd["r1"], Expect(hist.wlen["a"]))

(***************************************************************************)
(* A device that refuses to erase some blocks: no power loss.              *)
(***************************************************************************)
MaxOpsE == 8
Refusals == {{}, {1}, {3}}
LensE == {3, 100}
NoRefusal == [refused |-> {}]

InitE ==
    /\ flash = ErasedFlash
    /\ drv = ClosedDrv
    /\ fs = Boot(ErasedFlash, {}).fs
    /\ wf = NoWriteFiles
    /\ rf = NoReadFiles
    /\ power = "run"
    /\ bad = {}
    /\ hist = NoHist
    /\ thr = NoRefusal

\* the machine of an operation during which the blocks of ef are not erased
MachineE(ef) == [Machine(BigFuel, 1, "benign") EXCEPT !.erasefail = ef]

FormatE(ef) ==
    /\ power = "run"
    /\ \E m \in {flogfs_format(MachineE(ef))} :
          /\ Settle(m, [Did("format", Ok(m)) EXCEPT
                           !.live = {}, !.wlen = [n \in Names |-> 0], !.ids = <<>>])
          /\ thr' = [refused |-> ef]

RemoveE(name, ef) ==
    /\ power = "run"
    /\ \E m \in {flogfs_rm(MachineE(ef), name)},
          id \in {flog_find_file(Machine(BigFuel, 0, "benign"), name).ret.file_id} :
          /\ Settle(m, [DidTo("rm", [h |-> NULL, name |-> name, n |-> 0], Ok(m))
                           EXCEPT !.live = IF Ok(m) THEN @ \ {name} ELSE @,
                                  !.rm = [id |-> id, blocks |-> BlocksOf(flash, id),
                                          halt |-> m.halt]])
          /\ thr' = [refused |-> ef]

NextE ==
    \/ (Len(hist.trace) = 0 \/ (hist.last.op = "format" /\ ~hist.last.ok))
       /\ Len(hist.trace) < 2
       /\ \E ef \in Refusals : FormatE(ef)
    \/ hist.last.op = "format" /\ hist.last.ok /\ Mount(BigFuel, "benign")
    \/ Len(hist.trace) < MaxOpsE /\ fs.state = "MOUNTED"
       /\ \E name \in NamesM : OpenWrite("w1", name, BigFuel, 1, "benign")
    \/ Len(hist.trace) < MaxOpsE
       /\ \E n \in LensE : Write("w1", n, BigFuel, 1, "benign")
    \/ Len(hist.trace) < MaxOpsE /\ CloseWrite("w1", BigFuel, 1, "benign")
    \/ Len(hist.trace) < MaxOpsE /\ fs.state = "MOUNTED" /\ hist.wname["w1"] = NULL
       /\ \E name \in hist.live, ef \in Refusals : RemoveE(name, ef)

SpecE == InitE /\ [][NextE]_vars

\* C37: a block whose erase is refused is set aside: flogfs_format goes on
\* to the next block and succeeds, and a removal that could not erase a
\* block of the file does not mark that block free.
C37_RefusedEraseQuarantines ==
    power = "run" =>
       /\ hist.last.op = "format" => hist.last.ok
       /\ (hist.last.op = "rm" /\ hist.last.ok)
             => \A b \in thr.refused \cap hist.rm.blocks : fs.free_block_bitmap[b] = 0

(***************************************************************************)
(* Programming of the media between erases.                                *)
(***************************************************************************)
DataOf(sec) == <<sec.b, sec.name, sec.key>>
SpareOf(sec) == <<sec.type, sec.w>>

\* the blocks a step erases: a programmed sector is erased after it
ErasedByStep ==
    { b \in Blocks : \E s \in Sectors : /\ flash[b][s] # ErasedSector
                                        /\ flash'[b][s] = ErasedSector }

\* C38: a step that does not erase a block leaves every data area and
\* every spare area of the block that was already programmed as it was:
\* nothing is programmed a second time between two erases.
C38_ProgrammedOnce ==
    [][ hist'.last.op \in {"open_write", "write", "close_write", "mount"}
           => \A b \in Blocks \ ErasedByStep : \A s \in Sectors :
                 /\ DataOf(flash[b][s]) # DataOf(ErasedSector)
                       => DataOf(flash'[b][s]) = DataOf(flash[b][s])
                 /\ SpareOf(flash[b][s]) # SpareOf(ErasedSector)
                       => SpareOf(flash'[b][s]) = SpareOf(flash[b][s]) ]_vars

(***************************************************************************)
(* The hand-over from a full block to its successor.                       *)
(***************************************************************************)
TailCommitted(fl, b) ==
    /\ fl[b][FLOG_INIT_SECTOR].type = FLOG_BLOCK_TYPE_FILE
    /\ TailOf(fl[b][FLOG_TAIL_SECTOR].b).timestamp # FLOG_TIMESTAMP_INVALID

\* the blocks whose tail sector a step commits
TailCommits == { b \in Blocks : ~TailCommitted(flash, b) /\ TailCommitted(flash', b) }

\* the sectors of a block that a file or an inode chain programs
UseSectors == Sectors \ {FLOG_BLK_STAT_SECTOR}

\* C39: when the tail sector of a block is committed, no sector of the
\* successor it names was programmed before; and a reader stands in a
\* block other than the file's first only if the tail of a block of the
\* file names it and its init sector carries the file's id.
C39_TailBeforeSuccessor ==
    /\ [][ \A b \in TailCommits :
              \A n \in {TailOf(flash'[b][FLOG_TAIL_SECTOR].b).next_block} :
                 /\ n \in Blocks
                 /\ \A s \in UseSectors : flash[n][s] = ErasedSector ]_vars
    /\ [](\A h \in ReadHandles :
             (/\ power = "run" /\ hist.rname[h] # NULL
              /\ rf[h].block # Found(hist.rname[h]).ret.first_block)
                => /\ rf[h].block \in BlocksOf(flash, rf[h].id)
                   /\ \E b \in BlocksOf(flash, rf[h].id) :
                         /\ TailCommitted(flash, b)
                         /\ TailOf(flash[b][FLOG_TAIL_SECTOR].b).next_block = rf[h].block)

(***************************************************************************)
(* The preallocation list by itself: flog_prealloc_push and                *)
(* flog_prealloc_pop applied to blocks, ages and thresholds from small     *)
(* sets.  thr keeps what the list ought to hold.                           *)
(***************************************************************************)
MaxOpsP == 4
MaxAgeP == 3
MaxBlockP == 3
MeansP == {0, 2}
ThresholdsP == {-1, 0, 1}

NoList == [ref |-> <<>>, op |-> "none", ret |-> InvalidAlloc, was |-> ZeroFs.prealloc]

InitP ==
    /\ flash = ErasedFlash
    /\ drv = ClosedDrv
    /\ \E mean \in MeansP : fs = [Boot(ErasedFlash, {}).fs EXCEPT !.mean_free_age = mean]
    /\ wf = NoWriteFiles
    /\ rf = NoReadFiles
    /\ power = "run"
    /\ bad = {}
    /\ hist = NoHist
    /\ thr = NoList

\* e put before the first entry that is not younger, the list cut to
\* FS_PREALLOCATE_SIZE entries
RECURSIVE SortedInsert(_, _)
SortedInsert(ref, e) ==
    IF ref = <<>> THEN <<e>>
    ELSE IF e.age <= Head(ref).age THEN <<e>> \o ref
    ELSE <<Head(ref)>> \o SortedInsert(Tail(ref), e)

RefPush(ref, e) ==
    Val({ IF Len(s) > FS_PREALLOCATE_SIZE THEN SubSeq(s, 1, FS_PREALLOCATE_SIZE) ELSE s
        : s \in {SortedInsert(ref, e)} })

RefPops(ref, threshold) ==
    ref # <<>> /\ fs.mean_free_age - Head(ref).age >= threshold

PushP(block, age) ==
    /\ power = "run"
    /\ \E m \in {flog_prealloc_push(Machine(BigFuel, 0, "benign"), block, age)} :
          /\ Settle(m, Did("push", TRUE))
          /\ thr' = [ref |-> RefPush(thr.ref, [block |-> block, age |-> age]),
                     op |-> "push", ret |-> InvalidAlloc, was |-> fs.prealloc]

PopP(threshold) ==
    /\ power = "run"
    /\ \E m \in {flog_prealloc_pop(Machine(BigFuel, 0, "benign"), threshold)} :
          /\ Settle(m, Did("pop", m.ret.block # FLOG_BLOCK_IDX_INVALID))
          /\ thr' = [ref |-> IF RefPops(thr.ref, threshold) THEN Tail(thr.ref)
                             ELSE thr.ref,
                     op |-> IF RefPops(thr.ref, threshold) THEN "pop" ELSE "refuse",
                     ret |-> m.ret, was |-> fs.prealloc]

NextP ==
    \/ Len(hist.trace) < MaxOpsP
       /\ \E block \in (1 .. MaxBlockP) \ {thr.ref[i].block : i \in 1 .. Len(thr.ref)},
             age \in 1 .. MaxAgeP : PushP(block, age)
    \/ Len(hist.trace) < MaxOpsP
       /\ \E threshold \in ThresholdsP : PopP(threshold)

SpecP == InitP /\ [][NextP]_vars

RECURSIVE SumAges(_)
SumAges(ref) == IF ref = <<>> THEN 0 ELSE Head(ref).age + SumAges(Tail(ref))

\* the entries of the list in use
Listed == [i \in 1 .. fs.prealloc.n |-> fs.prealloc.blocks[i - 1]]

\* C40: the list holds at most FS_PREALLOCATE_SIZE entries in ascending
\* order of age, they are the pushed blocks that were neither evicted (the
\* oldest of a full list) nor popped, age_sum is the sum of their ages, and
\* a pop returns the youngest entry when its age is sufficient, and
\* otherwise returns FLOG_BLOCK_IDX_INVALID and leaves the list as it was.
C40_PreallocList ==
    /\ fs.prealloc.n <= FS_PREALLOCATE_SIZE
    /\ \A i, j \in 1 .. Len(Listed) : i < j => Listed[i].age <= Listed[j].age
    /\ Len(Listed) = Len(thr.ref)
    /\ {Listed[i] : i \in 1 .. Len(Listed)} = {thr.ref[i] : i \in 1 .. Len(thr.ref)}
    /\ fs.prealloc.age_sum = SumAges(Listed)
    /\ thr.op = "pop" => thr.ret.block = thr.was.blocks[0].block
    /\ thr.op = "refuse" => /\ thr.ret.block = FLOG_BLOCK_IDX_INVALID
                            /\ fs.prealloc = thr.was

====
